---- MODULE Spec2Model ----
(***************************************************************************)
(* The debug-session engine of the Python debug MCP server: the DAP client *)
(* (framing, request/response correlation, events), the session manager    *)
(* and the tool handlers and adapter-event handlers of index.ts.            *)
(*                                                                         *)
(* These specifications share this module:                                 *)
(*   Spec        one debug session driven by tool calls and by the adapter  *)
(*   SpecBp      the breakpoint calls of a session with lines cached       *)
(*   SpecPort    the ports of the sessions that are created                 *)
(*   SpecCorr    the request/response correlator of one DAP client         *)
(*               (SpecCorrFair adds the fairness of Node's timers)          *)
(*   SpecFrame   the deframing of the socket's byte stream                  *)
(*   SpecDamaged the deframing of a stream with frames that are not well   *)
(*               formed                                                     *)
(*   SpecStart   start_debug_session and attach_to_debugpy, handshake step *)
(*               by handshake step (SpecStartFair adds fairness;            *)
(*               SpecStartEvents adds a `stopped` event of the adapter)    *)
(*   SpecVars    the scope loop of get_variables                            *)
(*   SpecStop    a started session with its subprocess and the event       *)
(*               broadcaster, up to and after its termination              *)
(*   SpecConnect the connect loop of waitForConnection and its sockets     *)
(***************************************************************************)
EXTENDS Integers, Sequences, FiniteSets, TLC

(***************************************************************************)
(* Bounds of the model.                                                    *)
(***************************************************************************)
\* tool calls made on the session and adapter events received on its socket
MaxInputs == 2
\* lines 1..MaxPrior may be cached for a file before the calls of SpecBp
MaxPrior == 3
\* sessions created in SpecPort
MaxSessions == 4
\* requests issued through the client of SpecCorr
MaxCorrRequests == 2
\* frames on the wire in SpecFrame and SpecDamaged
MaxFrames == 3

(***************************************************************************)
(* Values.                                                                 *)
(***************************************************************************)
\* a field that is undefined in the source (currentThreadId?, bp.id, ...)
Undefined == -1

\* the one session id of the model (a uuid in the source)
S1 == "s1"

\* JavaScript truthiness of an optional number: undefined and 0 are falsy
Truthy(n) == n # Undefined /\ n # 0

\* thread ids the adapter may report (0 is a legal DAP id and falsy in JS)
ThreadIds == {0, 1}

\* frame ids the adapter may report
FrameIds == {0, 7}

\* path strings a caller may pass as `file`; both name the same file
Files == {"a.py", "/w/a.py"}

\* line arguments a caller may pass (0 is rejected by set_breakpoint)
Lines == {0, 1, 2}

\* path.resolve(file): an absolute path stays, a relative one is joined to cwd
resolve(file) == IF file = "a.py" THEN "/w/a.py" ELSE file

Sources == {resolve(f) : f \in Files}

\* the elements of a sequence
Range(s) == {s[i] : i \in 1..Len(s)}

\* how often x occurs in the sequence s
Count(s, x) == Cardinality({i \in 1..Len(s) : s[i] = x})

VARIABLES
  \* SessionManager.sessions: the ids in the registry
  sessions,
  \* the DebugSession object, which handlers keep referring to after eviction
  session,
  \* DAPClient fields
  connected, socket, sequenceNumber, pendingRequests, messageBuffer,
  \* the TCP connection: "none", "open", "ended" (client sent FIN), "closed"
  link,
  \* requests written to the socket that the adapter has not answered yet
  inbox,
  \* per source path, the lines of the last setBreakpoints request written
  lastSent,
  \* suspended async functions (tool handlers, the stopped handler)
  tasks,
  \* the step that was taken last
  last,
  \* how many tool calls and adapter events have happened
  inputs,
  \* the breakpoint calls made so far: when each started and how it ended
  log,
  \* SessionManager.portCounter, and for every session created so far the port
  \* the allocator returned and the port the session got
  portCounter, created,
  \* SpecCorr: what happened to each request issued through the client, and the
  \* timers of sendRequest that have not fired yet
  issued, timers,
  \* SpecStart: where the start or attach handler is in its handshake
  hs,
  \* SpecVars: the get_variables handler with the scopes the adapter reported
  gv,
  \* SpecStop: the broadcaster's entry of the session and what it published, and
  \* the session's subprocess with the kill timer of terminateSession
  ext,
  \* SpecConnect: the connect loop of waitForConnection and the sockets it made
  cx,
  \* SpecFrame: bytes still to arrive, the messages they frame, those dispatched
  wire, original, dispatched, errors

portVars == <<portCounter, created>>
sessVars ==
  <<sessions, session, lastSent, tasks, inputs, log, portVars, hs, gv, ext, cx>>
clientVars == <<connected, socket, sequenceNumber, pendingRequests, link, inbox>>
corrVars == <<issued, timers>>
frameVars == <<messageBuffer, wire, original, dispatched, errors>>
vars == <<sessVars, clientVars, corrVars, frameVars, last>>

(***************************************************************************)
(* DAP messages and the pending table of the DAP client (dapClient.ts).    *)
(***************************************************************************)
\* a response without a body
AbsentBody == [kind |-> "absent", ids |-> <<>>, verified |-> <<>>]

\* a body that lacks the array the caller reads (threads, stackFrames, breakpoints)
EmptyBody == [kind |-> "empty", ids |-> <<>>, verified |-> <<>>]

\* a body with an array: the ids of its entries and, for breakpoints, their flags
ListBody(ids, verified) == [kind |-> "list", ids |-> ids, verified |-> verified]

\* DAPResponse
Response(request_seq, success, message, body) ==
  [type |-> "response", request_seq |-> request_seq, success |-> success,
   message |-> message, body |-> body, event |-> "", tid |-> Undefined]

\* DAPEvent; tid is body.threadId
Event(event, tid) ==
  [type |-> "event", request_seq |-> 0, success |-> FALSE,
   message |-> "", body |-> AbsentBody, event |-> event, tid |-> tid]

\* what a promise of sendRequest is settled with
Resolved(body) == [ok |-> TRUE, body |-> body, err |-> ""]
Rejected(err) == [ok |-> FALSE, body |-> AbsentBody, err |-> err]
NoResult == [ok |-> FALSE, body |-> AbsentBody, err |-> "unsettled"]

\* sendRequest's guard: `!this.connected || !this.socket` throws
CanSend == connected /\ socket

\* handleMessage: the response finds a pending entry
Matches(pending, msg) ==
  msg.type = "response" /\ msg.request_seq \in DOMAIN pending

\* (mutant) a response that finds no entry empties the table
PendingAfterMessageClears(pending, msg) ==
  IF Matches(pending, msg)
  THEN [s \in DOMAIN pending \ {msg.request_seq} |-> pending[s]]
  ELSE <<>>

\* handleMessage: pendingRequests.delete(response.request_seq)
PendingAfterMessage(pending, msg) ==
  IF Matches(pending, msg)
  THEN [s \in DOMAIN pending \ {msg.request_seq} |-> pending[s]]
  ELSE pending

\* (mutant) the response is resolved whatever its success flag says
SettleWithIgnoringSuccess(msg) == Resolved(msg.body)

\* handleMessage: pending.resolve(response.body) or
\* pending.reject(new Error(response.message || 'Request failed'))
SettleWith(msg) ==
  IF msg.success THEN Resolved(msg.body)
  ELSE Rejected(IF msg.message # "" THEN msg.message ELSE "Request failed")

\* (mutant) the timer rejects without looking at the pending table
TimeoutAppliesAlways(pending, seq) == TRUE

\* sendRequest's timer: fires only `if (this.pendingRequests.has(request.seq))`
TimeoutApplies(pending, seq) == seq \in DOMAIN pending

\* sendRequest's timer: pendingRequests.delete(request.seq)
PendingAfterTimeout(pending, seq) ==
  [s \in DOMAIN pending \ {seq} |-> pending[s]]

\* sendRequest's timer: reject(new Error(`Request timeout: ${command}`))
TimeoutError == Rejected("Request timeout")

\* sendRequest: throw new Error('DAP client not connected')
NotConnectedError == Rejected("DAP client not connected")

\* (mutant) the counter is read without being advanced
NextSequenceNumberSame(n) == n

\* sendRequest: `seq: this.sequenceNumber++` leaves the counter one higher
NextSequenceNumber(n) == n + 1

\* sendRequest: this.pendingRequests.set(request.seq, {resolve, reject})
PendingAfterSend(pending, seq, who) ==
  [s \in DOMAIN pending \cup {seq} |-> IF s = seq THEN who ELSE pending[s]]

\* (mutant) responses are matched to the oldest pending request
WaiterOldest(pending, msg) ==
  pending[CHOOSE s \in DOMAIN pending : \A o \in DOMAIN pending : s <= o]

\* handleMessage: const pending = this.pendingRequests.get(response.request_seq)
Waiter(pending, msg) == pending[msg.request_seq]

\* DAPClient.close(): `if (this.socket) { this.socket.end(); this.socket = null }`
LinkAfterClose(l, sock) == IF sock /\ l = "open" THEN "ended" ELSE l

\* the step taken last; every action fills in what it did
NoStep ==
  [op |-> "init", file |-> "", line |-> 0, seq |-> 0, who |-> 0,
   msg |-> Event("", Undefined), res |-> ""]

\* a breakpoint table without entries
NoBreakpoints == [f \in Files |-> <<>>]

\* before createSession: no DebugSession object
NoSession ==
  [created |-> FALSE, state |-> "none", currentThreadId |-> Undefined,
   currentFrameId |-> Undefined, dapClient |-> FALSE, breakpoints |-> NoBreakpoints]

\* private static portCounter = 5678
FirstPortCounter == 5678

\* attach_to_debugpy: `const { port = 5678, script_path } = args`
DefaultAttachPort == 5678

\* (mutant) the allocator returns the counter without advancing it
getNextPortStuck(counter) == counter

\* (mutant) the allocator hands out a pool of three ports in turn
getNextPortPool(counter) ==
  IF counter >= FirstPortCounter + 3 THEN FirstPortCounter + 1 ELSE counter + 1

\* SessionManager.getNextPort: `return ++this.portCounter`
getNextPort(counter) == counter + 1

\* createSession, and the port override of attach_to_debugpy: the session is
\* created with the allocator's port and keeps `port`
SessionCreated(kind, port) ==
  /\ portCounter' = getNextPort(portCounter)
  /\ created' = Append(created, [kind |-> kind, allocated |-> getNextPort(portCounter),
                                  port |-> port])

\* requests of the handshake
HandshakeCommands == {"initialize", "attach", "threads", "configurationDone", "stackTrace"}

\* no start or attach handler is running
NoHandshake ==
  [variant |-> "none", pc |-> "idle", step |-> "", attempt |-> 0,
   reply |-> "none", promise |-> "none",
   sent |-> [c \in HandshakeCommands |-> 0],
   events |-> 0, heard |-> "", probed |-> FALSE, configured |-> FALSE,
   process |-> "none", owned |-> FALSE,
   result |-> "none", cause |-> "", thrown |-> ""]

\* no get_variables call is running
NoInspection == [pc |-> "idle", scope |-> "", scopes |-> <<>>, i |-> 0, variables |-> <<>>]

\* the broadcaster has no entry for the session and has published nothing; the
\* session has no subprocess
NoOutside ==
  [entry |-> "none", removed |-> FALSE, published |-> 0,
   process |-> "none", killed |-> FALSE, signals |-> <<>>, timer |-> "none"]

\* waitForConnection has not been called
NoConnect == [pc |-> "idle", attempt |-> 0, sockets |-> <<>>]

\* no session has been created
PortIdle == portCounter = FirstPortCounter /\ created = <<>>

\* the other specifications' variables, at rest
SessIdle ==
  /\ sessions = {}
  /\ session = NoSession
  /\ lastSent = [f \in Sources |-> <<>>]
  /\ tasks = <<>>
  /\ inputs = 0 /\ log = <<>>
  /\ PortIdle /\ hs = NoHandshake /\ gv = NoInspection /\ ext = NoOutside /\ cx = NoConnect

FrameIdle ==
  /\ messageBuffer = <<>> /\ wire = <<>> /\ original = <<>>
  /\ dispatched = <<>> /\ errors = 0

ClientIdle ==
  /\ connected = FALSE /\ socket = FALSE /\ link = "none"
  /\ sequenceNumber = 1 /\ pendingRequests = <<>> /\ inbox = {}

CorrIdle == issued = <<>> /\ timers = {}

(***************************************************************************)
(* Spec: one debug session.  A tool handler or event handler that awaits a *)
(* DAP request is a task: it is suspended with the sequence number in the  *)
(* pending table and resumed, as a microtask, once the promise is settled. *)
(* Tool calls, timers and the socket's 'close' are macrotasks: they start   *)
(* only when no settled task is waiting to resume.  Messages that arrive   *)
(* in one chunk are handled before the tasks they settle resume.            *)
(***************************************************************************)
\* SessionManager.getBreakpoints(sessionId, file)
getBreakpoints(reg, sess, file) ==
  IF S1 \notin reg THEN <<>> ELSE sess.breakpoints[file]

\* SessionManager.setBreakpoints(sessionId, file, breakpoints)
setBreakpoints(reg, sess, file, bps) ==
  IF S1 \in reg THEN [sess EXCEPT !.breakpoints[file] = bps] ELSE sess

\* SessionManager.updateSessionState(sessionId, state)
updateSessionState(reg, sess, state) ==
  IF S1 \in reg THEN [sess EXCEPT !.state = state] ELSE sess

\* existingBreakpoints.map(bp => bp.line)
LinesOf(bps) == [i \in 1..Len(bps) |-> bps[i].line]

\* list_breakpoints(session_id, file): the lines of the list it prints
list_breakpoints(file) == LinesOf(getBreakpoints(sessions, session, file))

\* (mutant) the new line is pushed without looking for it in the list
AddLineAlways(existingLines, line) == Append(existingLines, line)

\* (mutant) the new line is put in front of the list
AddLineFirst(existingLines, line) ==
  IF line \in Range(existingLines) THEN existingLines ELSE <<line>> \o existingLines

\* set_breakpoint: `if (!existingLines.includes(line)) existingLines.push(line)`
AddLine(existingLines, line) ==
  IF line \in Range(existingLines) THEN existingLines ELSE Append(existingLines, line)

\* (mutant) the target line is not filtered out
RemoveLineNothing(existingBreakpoints, line) == LinesOf(existingBreakpoints)

\* remove_breakpoint: existingBreakpoints.filter(bp => bp.line !== line).map(bp => bp.line)
RemoveLine(existingBreakpoints, line) ==
  LinesOf(SelectSeq(existingBreakpoints, LAMBDA bp : bp.line # line))

\* response.breakpoints.map((bp, index) => ({id: bp.id || index, file,
\* line: lines[index], verified: bp.verified})); index counts from 0
CachedBreakpoints(body, lines) ==
  [i \in 1..Len(body.ids) |->
     [id |-> IF Truthy(body.ids[i]) THEN body.ids[i] ELSE i - 1,
      line |-> IF i <= Len(lines) THEN lines[i] ELSE Undefined,
      verified |-> body.verified[i]]]

\* the suspended handlers
TaskIds == 1..MaxInputs

NewTask == CHOOSE t \in TaskIds : t \notin DOMAIN tasks /\ \A o \in TaskIds \ DOMAIN tasks : t <= o

Task(op, pc, file, line, lines, tid, attempt) ==
  [op |-> op, pc |-> pc, file |-> file, line |-> line, lines |-> lines,
   tid |-> tid, attempt |-> attempt, res |-> NoResult]

WithTask(ts, t, rec) == [i \in DOMAIN ts \cup {t} |-> IF i = t THEN rec ELSE ts[i]]

WithoutTask(ts, t) == [i \in DOMAIN ts \ {t} |-> ts[i]]

\* a task whose promise is settled and whose continuation has not run yet
Ready(t) == t \in DOMAIN tasks /\ tasks[t].res # NoResult

\* the microtask queue is empty
NoReady == \A t \in DOMAIN tasks : tasks[t].res = NoResult

\* an entry of the log: ev is "call" when the call starts and its result when
\* it ends; lines is what list_breakpoints(file) prints at that moment
LogEntry(op, file, line, ev, lines) ==
  [op |-> op, file |-> file, line |-> line, ev |-> ev, lines |-> lines]

\* the call (op, file, line) starts; it ends at once unless a request is pending
LogCall(op, file, line) ==
  LET call == LogEntry(op, file, line, "call", list_breakpoints(file))
  IN log' = IF last'.res = "pending"
            THEN Append(log, call)
            ELSE log \o <<call, LogEntry(op, file, line, last'.res, list_breakpoints(file))>>

\* the call (op, file, line) ends unless a request is pending
LogEnd(op, file, line) ==
  log' = IF last'.res = "pending"
         THEN log
         ELSE Append(log, LogEntry(op, file, line, last'.res,
                                   LinesOf(getBreakpoints(sessions, session', file))))

\* sendRequest(command, args) by task t, past its connected check
SendRequest(t, command, source, lines) ==
  /\ sequenceNumber' = NextSequenceNumber(sequenceNumber)
  /\ pendingRequests' = PendingAfterSend(pendingRequests, sequenceNumber, t)
  /\ inbox' = inbox \cup {[seq |-> sequenceNumber, command |-> command,
                           source |-> source, lines |-> lines]}
  /\ lastSent' = IF command = "setBreakpoints"
                 THEN [lastSent EXCEPT ![source] = lines] ELSE lastSent
  /\ UNCHANGED <<connected, socket, link>>

\* nothing is sent
NoSend == UNCHANGED <<clientVars, lastSent>>

\* before any tool call: no session, no client
Init ==
  /\ sessions = {}
  /\ session = NoSession
  /\ lastSent = [f \in Sources |-> <<>>]
  /\ tasks = <<>>
  /\ inputs = 0 /\ log = <<>>
  /\ PortIdle /\ hs = NoHandshake /\ gv = NoInspection /\ ext = NoOutside /\ cx = NoConnect
  /\ last = NoStep
  /\ ClientIdle /\ CorrIdle /\ FrameIdle

\* what `threads` answers during the handshake
HandshakeThreads == {<<>>, <<1>>}

\* what `stackTrace` answers during the handshake
HandshakeFrames == {<<>>, <<7>>}

\* requests of a handshake without retries: initialize, attach, threads,
\* configurationDone, threads (and stackTrace when there is a thread)
HandshakeRequests(threads) == IF threads = <<>> THEN 5 ELSE 6

\* attach_to_debugpy with a handshake that succeeds at once: createSession,
\* new DAPClient, setupDAPEventHandlers, connect, initialize, attach, threads,
\* configurationDone, initializeThreadContext, state 'running'
attach_to_debugpy_ok ==
  \E threads \in HandshakeThreads, frames \in HandshakeFrames :
    /\ ~session.created
    /\ threads = <<>> <=> frames = <<>>
    /\ sessions' = {S1}
    /\ session' = [created |-> TRUE, state |-> "running",
                   currentThreadId |-> IF threads = <<>> THEN Undefined ELSE threads[1],
                   currentFrameId |-> IF frames = <<>> THEN Undefined ELSE frames[1],
                   dapClient |-> TRUE, breakpoints |-> NoBreakpoints]
    /\ connected' = TRUE /\ socket' = TRUE /\ link' = "open"
    /\ sequenceNumber' = 1 + HandshakeRequests(threads)
    /\ last' = [NoStep EXCEPT !.op = "attach_to_debugpy", !.res = "ok"]
    /\ SessionCreated("attach", DefaultAttachPort)
    /\ UNCHANGED <<pendingRequests, inbox, lastSent, tasks, inputs, log, corrVars, frameVars, hs, gv, ext, cx>>

\* attach_to_debugpy whose connect fails: the catch block runs terminateSession
attach_to_debugpy_failed ==
  /\ ~session.created
  /\ sessions' = {}
  /\ session' = [NoSession EXCEPT !.created = TRUE, !.state = "stopped"]
  /\ last' = [NoStep EXCEPT !.op = "attach_to_debugpy", !.res = "internal error"]
  /\ SessionCreated("attach", DefaultAttachPort)
  /\ UNCHANGED <<clientVars, lastSent, tasks, inputs, log, corrVars, frameVars, hs, gv, ext, cx>>

\* set_breakpoint(session_id, file, line) up to its first await
set_breakpoint(file, line) ==
  /\ session.created /\ NoReady
  /\ inputs < MaxInputs
  /\ inputs' = inputs + 1
  /\ IF S1 \notin sessions \/ ~session.dapClient
     THEN /\ last' = [NoStep EXCEPT !.op = "set_breakpoint", !.file = file,
                                    !.line = line, !.res = "invalid params"]
          /\ NoSend /\ UNCHANGED tasks
     ELSE IF line < 1
     THEN /\ last' = [NoStep EXCEPT !.op = "set_breakpoint", !.file = file,
                                    !.line = line, !.res = "invalid params"]
          /\ NoSend /\ UNCHANGED tasks
     ELSE IF ~CanSend
     THEN \* validateDAPConnection: threads() throws
          /\ last' = [NoStep EXCEPT !.op = "set_breakpoint", !.file = file,
                                    !.line = line, !.res = "internal error"]
          /\ NoSend /\ UNCHANGED tasks
     ELSE /\ SendRequest(NewTask, "threads", "", <<>>)
          /\ tasks' = WithTask(tasks, NewTask,
                               Task("set_breakpoint", "validate", file, line, <<>>,
                                    Undefined, 0))
          /\ last' = [NoStep EXCEPT !.op = "set_breakpoint", !.file = file,
                                    !.line = line,
                                    !.res = "pending"]
  /\ UNCHANGED <<sessions, session, portVars, corrVars, frameVars, hs, gv, ext, cx>>
  /\ LogCall("set_breakpoint", file, line)

\* dapClient.threads() and stackTrace(): `response.threads || []` throws a
\* TypeError when the response has no body
ListOf(res) ==
  IF ~res.ok THEN res
  ELSE IF res.body.kind = "absent" THEN Rejected("TypeError")
  ELSE res

\* set_breakpoint after validateDAPConnection: the lines are read from the cache
\* and the whole list is sent
set_breakpoint_validated(t) ==
  /\ Ready(t) /\ tasks[t].op = "set_breakpoint" /\ tasks[t].pc = "validate"
  /\ LET file == tasks[t].file
         line == tasks[t].line
         existingLines == AddLine(LinesOf(getBreakpoints(sessions, session, file)), line)
     IN IF ~ListOf(tasks[t].res).ok \/ ~session.dapClient \/ ~CanSend
        THEN /\ tasks' = WithoutTask(tasks, t)
             /\ last' = [NoStep EXCEPT !.op = "set_breakpoint", !.file = file,
                                       !.line = line, !.res = "internal error"]
             /\ NoSend
        ELSE /\ SendRequest(t, "setBreakpoints", resolve(file), existingLines)
             /\ tasks' = [tasks EXCEPT ![t].pc = "set", ![t].lines = existingLines,
                                       ![t].res = NoResult]
             /\ last' = [NoStep EXCEPT !.op = "set_breakpoint", !.file = file,
                                       !.line = line,
                                       !.res = "pending"]
  /\ UNCHANGED <<sessions, session, inputs, portVars, corrVars, frameVars, hs, gv, ext, cx>>
  /\ LogEnd("set_breakpoint", tasks[t].file, tasks[t].line)

\* (mutant) a rejected setBreakpoints request is taken for an empty answer
SetFailedIgnoringRejection(res) == res.ok /\ res.body.kind # "list"

\* set_breakpoint: the awaited setBreakpoints rejects, or the handler throws
\* on `!response || !response.breakpoints`
SetFailed(res) == ~res.ok \/ res.body.kind # "list"

\* set_breakpoint after the setBreakpoints response: the cache is replaced
set_breakpoint_done(t) ==
  /\ Ready(t) /\ tasks[t].op = "set_breakpoint" /\ tasks[t].pc = "set"
  /\ LET file == tasks[t].file
         line == tasks[t].line
         res == tasks[t].res
     IN IF SetFailed(res)
        THEN /\ last' = [NoStep EXCEPT !.op = "set_breakpoint", !.file = file,
                                       !.line = line, !.res = "internal error"]
             /\ UNCHANGED session
        ELSE /\ session' = setBreakpoints(sessions, session, file,
                                          CachedBreakpoints(res.body, tasks[t].lines))
             /\ last' = [NoStep EXCEPT !.op = "set_breakpoint", !.file = file,
                                       !.line = line, !.res = "ok",
                                       !.who = Count(list_breakpoints(file), line)]
  /\ tasks' = WithoutTask(tasks, t)
  /\ NoSend
  /\ UNCHANGED <<sessions, inputs, portVars, corrVars, frameVars, hs, gv, ext, cx>>
  /\ LogEnd("set_breakpoint", tasks[t].file, tasks[t].line)

\* remove_breakpoint(session_id, file, line) up to its await
remove_breakpoint(file, line) ==
  /\ session.created /\ NoReady
  /\ inputs < MaxInputs
  /\ inputs' = inputs + 1
  /\ LET updatedLines == RemoveLine(getBreakpoints(sessions, session, file), line)
     IN IF S1 \notin sessions \/ ~session.dapClient
        THEN /\ last' = [NoStep EXCEPT !.op = "remove_breakpoint", !.file = file,
                                       !.line = line, !.res = "invalid params"]
             /\ NoSend /\ UNCHANGED tasks
        ELSE IF ~CanSend
        THEN /\ last' = [NoStep EXCEPT !.op = "remove_breakpoint", !.file = file,
                                       !.line = line, !.res = "internal error"]
             /\ NoSend /\ UNCHANGED tasks
        ELSE /\ SendRequest(NewTask, "setBreakpoints", resolve(file), updatedLines)
             /\ tasks' = WithTask(tasks, NewTask,
                                  Task("remove_breakpoint", "remove", file, line,
                                       updatedLines, Undefined, 0))
             /\ last' = [NoStep EXCEPT !.op = "remove_breakpoint", !.file = file,
                                       !.line = line,
                                       !.res = "pending"]
  /\ UNCHANGED <<sessions, session, portVars, corrVars, frameVars, hs, gv, ext, cx>>
  /\ LogCall("remove_breakpoint", file, line)

\* remove_breakpoint after the setBreakpoints response
remove_breakpoint_done(t) ==
  /\ Ready(t) /\ tasks[t].op = "remove_breakpoint" /\ tasks[t].pc = "remove"
  /\ LET file == tasks[t].file
         line == tasks[t].line
         res == tasks[t].res
     IN IF ~res.ok \/ res.body.kind # "list"
        THEN /\ last' = [NoStep EXCEPT !.op = "remove_breakpoint", !.file = file,
                                       !.line = line, !.res = "internal error"]
             /\ UNCHANGED session
        ELSE /\ session' = setBreakpoints(sessions, session, file,
                                          CachedBreakpoints(res.body, tasks[t].lines))
             /\ last' = [NoStep EXCEPT !.op = "remove_breakpoint", !.file = file,
                                       !.line = line, !.res = "ok"]
  /\ tasks' = WithoutTask(tasks, t)
  /\ NoSend
  /\ UNCHANGED <<sessions, inputs, portVars, corrVars, frameVars, hs, gv, ext, cx>>
  /\ LogEnd("remove_breakpoint", tasks[t].file, tasks[t].line)

\* debug_continue(session_id) up to its await
debug_continue ==
  /\ session.created /\ NoReady
  /\ inputs < MaxInputs
  /\ inputs' = inputs + 1
  /\ IF S1 \notin sessions \/ ~session.dapClient \/ ~Truthy(session.currentThreadId)
     THEN /\ last' = [NoStep EXCEPT !.op = "debug_continue", !.res = "invalid params"]
          /\ NoSend /\ UNCHANGED tasks
     ELSE IF ~CanSend
     THEN /\ last' = [NoStep EXCEPT !.op = "debug_continue", !.res = "internal error"]
          /\ NoSend /\ UNCHANGED tasks
     ELSE /\ SendRequest(NewTask, "continue", "", <<>>)
          /\ tasks' = WithTask(tasks, NewTask,
                               Task("debug_continue", "continue", "", 0, <<>>,
                                    session.currentThreadId, 0))
          /\ last' = [NoStep EXCEPT !.op = "debug_continue",
                                    !.res = "pending"]
  /\ UNCHANGED <<sessions, session, log, portVars, corrVars, frameVars, hs, gv, ext, cx>>

\* debug_continue after the continue response:
\* sessionManager.updateSessionState(session_id, 'running')
debug_continue_done(t) ==
  /\ Ready(t) /\ tasks[t].op = "debug_continue" /\ tasks[t].pc = "continue"
  /\ IF ~tasks[t].res.ok
     THEN /\ last' = [NoStep EXCEPT !.op = "debug_continue", !.res = "internal error"]
          /\ UNCHANGED session
     ELSE /\ session' = updateSessionState(sessions, session, "running")
          /\ last' = [NoStep EXCEPT !.op = "debug_continue", !.res = "ok"]
  /\ tasks' = WithoutTask(tasks, t)
  /\ NoSend
  /\ UNCHANGED <<sessions, inputs, log, portVars, corrVars, frameVars, hs, gv, ext, cx>>

\* a tool call throws or returns before it has sent anything
Refuse(op, res) ==
  /\ last' = [NoStep EXCEPT !.op = op, !.res = res]
  /\ NoSend /\ UNCHANGED tasks

\* a tool call sends its first request and awaits the response
Await(op, pc, command, args, tid) ==
  /\ SendRequest(NewTask, command, "", args)
  /\ tasks' = WithTask(tasks, NewTask, Task(op, pc, "", 0, args, tid, 0))
  /\ last' = [NoStep EXCEPT !.op = op, !.res = "pending"]

\* a tool call returns or throws after its last await
Finish(t, res) ==
  /\ tasks' = WithoutTask(tasks, t)
  /\ last' = [NoStep EXCEPT !.op = tasks[t].op, !.res = res]
  /\ NoSend

\* the step tools and the DAP command each sends
StepOps == {"debug_step_over", "debug_step_in", "debug_step_out"}

StepCommand(op) ==
  CASE op = "debug_step_over" -> "next"
    [] op = "debug_step_in" -> "stepIn"
    [] op = "debug_step_out" -> "stepOut"

\* debug_step_over / debug_step_in / debug_step_out up to the await
debug_step(op) ==
  /\ session.created /\ NoReady
  /\ inputs < MaxInputs
  /\ inputs' = inputs + 1
  /\ IF S1 \notin sessions \/ ~session.dapClient \/ ~Truthy(session.currentThreadId)
     THEN Refuse(op, "invalid params")
     ELSE IF ~CanSend
     THEN Refuse(op, "internal error")
     ELSE Await(op, "step", StepCommand(op), <<session.currentThreadId>>,
                session.currentThreadId)
  /\ UNCHANGED <<sessions, session, log, portVars, corrVars, frameVars, hs, gv, ext, cx>>

\* a step tool after the response: the session's state is left alone
debug_step_done(t) ==
  /\ Ready(t) /\ tasks[t].op \in StepOps /\ tasks[t].pc = "step"
  /\ Finish(t, IF tasks[t].res.ok THEN "ok" ELSE "internal error")
  /\ UNCHANGED <<sessions, session, inputs, log, portVars, corrVars, frameVars, hs, gv, ext, cx>>

\* get_call_stack(session_id) up to the await
get_call_stack ==
  /\ session.created /\ NoReady
  /\ inputs < MaxInputs
  /\ inputs' = inputs + 1
  /\ IF S1 \notin sessions \/ ~session.dapClient \/ ~Truthy(session.currentThreadId)
     THEN Refuse("get_call_stack", "invalid params")
     ELSE IF ~CanSend
     THEN Refuse("get_call_stack", "internal error")
     ELSE Await("get_call_stack", "stackTrace", "stackTrace",
                <<session.currentThreadId>>, session.currentThreadId)
  /\ UNCHANGED <<sessions, session, log, portVars, corrVars, frameVars, hs, gv, ext, cx>>

\* get_call_stack after the stackTrace response
get_call_stack_done(t) ==
  /\ Ready(t) /\ tasks[t].op = "get_call_stack" /\ tasks[t].pc = "stackTrace"
  /\ Finish(t, IF ListOf(tasks[t].res).ok THEN "ok" ELSE "internal error")
  /\ UNCHANGED <<sessions, session, inputs, log, portVars, corrVars, frameVars, hs, gv, ext, cx>>

\* get_variables: `!session.currentFrameId` refuses the call
HasFrame(frameId) == Truthy(frameId)

\* get_variables(session_id, scope) up to the scopes request
get_variables ==
  /\ session.created /\ NoReady
  /\ inputs < MaxInputs
  /\ inputs' = inputs + 1
  /\ IF S1 \notin sessions \/ ~session.dapClient \/ ~HasFrame(session.currentFrameId)
     THEN Refuse("get_variables", "invalid params")
     ELSE IF ~CanSend
     THEN Refuse("get_variables", "internal error")
     ELSE Await("get_variables", "scopes", "scopes", <<session.currentFrameId>>,
                session.currentFrameId)
  /\ UNCHANGED <<sessions, session, log, portVars, corrVars, frameVars, hs, gv, ext, cx>>

\* get_variables after the scopes response: the variables of the one scope
\* that matches are requested
get_variables_scopes(t) ==
  /\ Ready(t) /\ tasks[t].op = "get_variables" /\ tasks[t].pc = "scopes"
  /\ LET res == ListOf(tasks[t].res)
     IN IF ~res.ok
        THEN Finish(t, "internal error")
        ELSE IF res.body.ids = <<>>
        THEN Finish(t, "ok")
        ELSE IF ~session.dapClient \/ ~CanSend
        THEN Finish(t, "internal error")
        ELSE /\ SendRequest(t, "variables", "", <<res.body.ids[1]>>)
             /\ tasks' = [tasks EXCEPT ![t].pc = "variables", ![t].res = NoResult]
             /\ last' = [NoStep EXCEPT !.op = "get_variables", !.res = "pending"]
  /\ UNCHANGED <<sessions, session, inputs, log, portVars, corrVars, frameVars, hs, gv, ext, cx>>

\* get_variables after the variables response
get_variables_done(t) ==
  /\ Ready(t) /\ tasks[t].op = "get_variables" /\ tasks[t].pc = "variables"
  /\ Finish(t, IF ListOf(tasks[t].res).ok THEN "ok" ELSE "internal error")
  /\ UNCHANGED <<sessions, session, inputs, log, portVars, corrVars, frameVars, hs, gv, ext, cx>>

\* evaluate_expression(session_id, expression) up to the await; what fails
\* inside its try block is returned as text
evaluate_expression ==
  /\ session.created /\ NoReady
  /\ inputs < MaxInputs
  /\ inputs' = inputs + 1
  /\ IF S1 \notin sessions \/ ~session.dapClient \/ session.currentFrameId = Undefined
     THEN Refuse("evaluate_expression", "invalid params")
     ELSE IF ~CanSend
     THEN Refuse("evaluate_expression", "error text")
     ELSE Await("evaluate_expression", "evaluate", "evaluate",
                <<session.currentFrameId>>, session.currentFrameId)
  /\ UNCHANGED <<sessions, session, log, portVars, corrVars, frameVars, hs, gv, ext, cx>>

\* (mutant) the handler lets the error of the evaluate request escape
EvaluateResultThrows(res) == IF ListOf(res).ok THEN "ok" ELSE "internal error"

\* evaluate_expression: the try block returns the result as text, the catch
\* block returns the error as text
EvaluateResult(res) == IF ListOf(res).ok THEN "ok" ELSE "error text"

\* evaluate_expression after the response
evaluate_expression_done(t) ==
  /\ Ready(t) /\ tasks[t].op = "evaluate_expression" /\ tasks[t].pc = "evaluate"
  /\ Finish(t, EvaluateResult(tasks[t].res))
  /\ UNCHANGED <<sessions, session, inputs, log, portVars, corrVars, frameVars, hs, gv, ext, cx>>

\* SessionManager.terminateSession(sessionId), past its `if (!session) return`:
\* dapClient.close(), dapClient = null, state = 'stopped', sessions.delete
terminateSession(sess) ==
  [sess EXCEPT !.dapClient = FALSE, !.state = "stopped"]

\* stop_debug_session(session_id)
stop_debug_session ==
  /\ session.created /\ NoReady
  /\ inputs < MaxInputs
  /\ inputs' = inputs + 1
  /\ IF S1 \notin sessions
     THEN /\ last' = [NoStep EXCEPT !.op = "stop_debug_session", !.res = "invalid params"]
          /\ UNCHANGED <<sessions, session, connected, socket, link>>
     ELSE /\ session' = terminateSession(session)
          /\ sessions' = sessions \ {S1}
          /\ IF session.dapClient
             THEN /\ link' = LinkAfterClose(link, socket)
                  /\ socket' = FALSE
                  /\ connected' = FALSE
             ELSE UNCHANGED <<connected, socket, link>>
          /\ last' = [NoStep EXCEPT !.op = "stop_debug_session", !.res = "ok"]
  /\ UNCHANGED <<sequenceNumber, pendingRequests, inbox, lastSent, tasks, log, portVars, corrVars, frameVars, hs, gv, ext, cx>>

\* breakpoint ids of the adapter: entry i of a response gets id 10 + i
AdapterIds(n) == [i \in 1..n |-> 10 + i]

\* ids of an adapter that counts its breakpoints from 0 (DAP allows any
\* integer) and answers with the entry it numbered first in the last place
ZeroBasedIds(n) == [i \in 1..n |-> n - i]

\* what the adapter may answer to a request it has read
AdapterResponses(req) ==
  {Response(req.seq, FALSE, "boom", AbsentBody)} \cup
  {Response(req.seq, TRUE, "", body) : body \in
     CASE req.command = "threads" -> {ListBody(<<1>>, <<>>)}
       [] req.command = "stackTrace" ->
            {EmptyBody} \cup {ListBody(<<f>>, <<>>) : f \in FrameIds}
       [] req.command = "setBreakpoints" ->
            LET n == Len(req.lines) IN
            {EmptyBody,
             ListBody(AdapterIds(n), [i \in 1..n |-> TRUE]),
             ListBody(ZeroBasedIds(n), [i \in 1..n |-> TRUE]),
             ListBody([i \in 1..n |-> Undefined], [i \in 1..n |-> FALSE])}
       [] req.command = "scopes" -> {EmptyBody, ListBody(<<3>>, <<>>)}
       [] req.command = "variables" -> {ListBody(<<1>>, <<>>)}
       [] req.command = "evaluate" -> {EmptyBody}
       [] OTHER -> {AbsentBody}}

\* the socket's 'data' handler reads a response: handleMessage
Respond ==
  \E req \in inbox : \E msg \in AdapterResponses(req) :
    /\ link \in {"open", "ended"}
    /\ inbox' = inbox \ {req}
    /\ pendingRequests' = PendingAfterMessage(pendingRequests, msg)
    /\ IF Matches(pendingRequests, msg)
       THEN /\ tasks' = [tasks EXCEPT ![Waiter(pendingRequests, msg)].res = SettleWith(msg)]
            /\ last' = [NoStep EXCEPT !.op = "response",
                                      !.who = Waiter(pendingRequests, msg),
                                      !.res = "settled"]
       ELSE /\ UNCHANGED tasks
            /\ last' = [NoStep EXCEPT !.op = "response",
                                      !.res = "ignored"]
    /\ UNCHANGED <<sessions, session, connected, socket, link, sequenceNumber,
                   lastSent, inputs, log, portVars, corrVars, frameVars, hs, gv, ext, cx>>

\* the 10 s timer of a pending request fires: the adapter has not answered, and
\* whatever it answers later finds no pending entry (SpecCorr has that case)
Timeout ==
  \E seq \in DOMAIN pendingRequests :
    /\ NoReady
    /\ TimeoutApplies(pendingRequests, seq)
    /\ pendingRequests' = PendingAfterTimeout(pendingRequests, seq)
    /\ inbox' = {req \in inbox : req.seq # seq}
    /\ tasks' = [tasks EXCEPT ![pendingRequests[seq]].res = TimeoutError]
    /\ last' = [NoStep EXCEPT !.op = "timeout",
                              !.who = pendingRequests[seq], !.res = "settled"]
    /\ UNCHANGED <<sessions, session, connected, socket, link, sequenceNumber,
                   lastSent, inputs, log, portVars, corrVars, frameVars, hs, gv, ext, cx>>

\* the socket's 'close' handler: connected = false, emit('disconnected'),
\* which nothing listens to
SocketClosed ==
  /\ NoReady
  /\ link \in {"open", "ended"}
  /\ link' = "closed"
  /\ connected' = FALSE
  /\ last' = [NoStep EXCEPT !.op = "socket closed"]
  /\ UNCHANGED <<sessions, session, socket, sequenceNumber, pendingRequests, inbox,
                 lastSent, tasks, inputs, log, portVars, corrVars, frameVars, hs, gv, ext, cx>>

\* retryDAPOperation(..., 'stackTrace', 2, ...) in the stopped handler
StackTraceRetries == 2

\* (mutant) the stopped handler takes any thread id
StoppedHasThreadAlways(tid) == TRUE

\* the stopped handler: `if (!body.threadId) return`
StoppedHasThread(tid) == Truthy(tid)

\* an event can be read from the socket
CanReceiveEvent ==
  session.created /\ link \in {"open", "ended"} /\ inputs < MaxInputs

\* the 'stopped' handler up to its first await
on_stopped(tid) ==
  /\ CanReceiveEvent
  /\ inputs' = inputs + 1
  /\ last' = [NoStep EXCEPT !.op = "event", !.res = "stopped",
                            !.msg = Event("stopped", tid)]
  /\ IF ~StoppedHasThread(tid)
     THEN /\ UNCHANGED <<session, tasks>> /\ NoSend
     ELSE /\ session' = updateSessionState(sessions,
                          [session EXCEPT !.currentThreadId = tid], "paused")
          /\ IF ~session.dapClient \/ ~CanSend
             THEN \* session.dapClient is null or sendRequest throws: attempt 1 failed
                  /\ tasks' = WithTask(tasks, NewTask,
                                Task("stopped", "backoff", "", 0, <<>>, tid, 1))
                  /\ NoSend
             ELSE /\ SendRequest(NewTask, "stackTrace", "", <<>>)
                  /\ tasks' = WithTask(tasks, NewTask,
                                Task("stopped", "stackTrace", "", 0, <<>>, tid, 1))
  /\ UNCHANGED <<sessions, log, portVars, corrVars, frameVars, hs, gv, ext, cx>>

\* the 'stopped' handler after the stackTrace response
stackTrace_done(t) ==
  /\ Ready(t) /\ tasks[t].op = "stopped" /\ tasks[t].pc = "stackTrace"
  /\ LET res == ListOf(tasks[t].res)
         frames == IF res.body.kind = "list" THEN res.body.ids ELSE <<>>
     IN IF res.ok
        THEN /\ session' = IF frames # <<>>
                           THEN [session EXCEPT !.currentFrameId = frames[1]]
                           ELSE session
             /\ tasks' = WithoutTask(tasks, t)
             /\ last' = [NoStep EXCEPT !.op = "stopped handler",
                                       !.res = IF frames # <<>> THEN "frame" ELSE "no frame"]
        ELSE IF tasks[t].attempt = StackTraceRetries
        THEN /\ tasks' = WithoutTask(tasks, t)
             /\ last' = [NoStep EXCEPT !.op = "stopped handler", !.res = "gave up"]
             /\ UNCHANGED session
        ELSE /\ tasks' = [tasks EXCEPT ![t].pc = "backoff", ![t].res = NoResult]
             /\ last' = [NoStep EXCEPT !.op = "stopped handler", !.res = "backoff"]
             /\ UNCHANGED session
  /\ NoSend
  /\ UNCHANGED <<sessions, inputs, log, portVars, corrVars, frameVars, hs, gv, ext, cx>>

\* retryDAPOperation's backoff timer fires: the next attempt of stackTrace
stackTrace_retry(t) ==
  /\ t \in DOMAIN tasks /\ tasks[t].pc = "backoff" /\ NoReady
  /\ IF ~session.dapClient \/ ~CanSend
     THEN IF tasks[t].attempt + 1 = StackTraceRetries
          THEN /\ tasks' = WithoutTask(tasks, t)
               /\ last' = [NoStep EXCEPT !.op = "stopped handler", !.res = "gave up"]
               /\ NoSend
          ELSE /\ tasks' = [tasks EXCEPT ![t].attempt = @ + 1]
               /\ last' = [NoStep EXCEPT !.op = "stopped handler", !.res = "backoff"]
               /\ NoSend
     ELSE /\ SendRequest(t, "stackTrace", "", <<>>)
          /\ tasks' = [tasks EXCEPT ![t].pc = "stackTrace", ![t].attempt = @ + 1]
          /\ last' = [NoStep EXCEPT !.op = "stopped handler",
                                    !.res = "pending"]
  /\ UNCHANGED <<sessions, session, inputs, log, portVars, corrVars, frameVars, hs, gv, ext, cx>>

\* the 'continued' handler
on_continued ==
  /\ CanReceiveEvent
  /\ inputs' = inputs + 1
  /\ session' = updateSessionState(sessions, session, "running")
  /\ last' = [NoStep EXCEPT !.op = "event", !.res = "continued"]
  /\ NoSend
  /\ UNCHANGED <<sessions, tasks, log, portVars, corrVars, frameVars, hs, gv, ext, cx>>

\* the 'terminated' handler
on_terminated ==
  /\ CanReceiveEvent
  /\ inputs' = inputs + 1
  /\ session' = updateSessionState(sessions, session, "stopped")
  /\ last' = [NoStep EXCEPT !.op = "event", !.res = "terminated"]
  /\ NoSend
  /\ UNCHANGED <<sessions, tasks, log, portVars, corrVars, frameVars, hs, gv, ext, cx>>

\* the 'exited' handler
on_exited ==
  /\ CanReceiveEvent
  /\ inputs' = inputs + 1
  /\ session' = updateSessionState(sessions, session, "stopped")
  /\ last' = [NoStep EXCEPT !.op = "event", !.res = "exited"]
  /\ NoSend
  /\ UNCHANGED <<sessions, tasks, log, portVars, corrVars, frameVars, hs, gv, ext, cx>>

Next ==
  \/ attach_to_debugpy_ok
  \/ attach_to_debugpy_failed
  \/ \E file \in Files, line \in Lines : set_breakpoint(file, line)
  \/ \E t \in TaskIds : set_breakpoint_validated(t)
  \/ \E t \in TaskIds : set_breakpoint_done(t)
  \/ \E file \in Files, line \in Lines : remove_breakpoint(file, line)
  \/ \E t \in TaskIds : remove_breakpoint_done(t)
  \/ debug_continue
  \/ \E t \in TaskIds : debug_continue_done(t)
  \/ \E op \in StepOps : debug_step(op)
  \/ \E t \in TaskIds : debug_step_done(t)
  \/ get_call_stack
  \/ \E t \in TaskIds : get_call_stack_done(t)
  \/ get_variables
  \/ \E t \in TaskIds : get_variables_scopes(t)
  \/ \E t \in TaskIds : get_variables_done(t)
  \/ evaluate_expression
  \/ \E t \in TaskIds : evaluate_expression_done(t)
  \/ stop_debug_session
  \/ Respond
  \/ Timeout
  \/ SocketClosed
  \/ \E tid \in ThreadIds \cup {Undefined} : on_stopped(tid)
  \/ \E t \in TaskIds : stackTrace_done(t)
  \/ \E t \in TaskIds : stackTrace_retry(t)
  \/ on_continued
  \/ on_terminated
  \/ on_exited

Spec == Init /\ [][Next]_vars


(***************************************************************************)
(* Properties of Spec.                                                     *)
(***************************************************************************)
\* a set_breakpoint or remove_breakpoint call is between its start and its end
BreakpointCallInFlight ==
  \E t \in DOMAIN tasks : tasks[t].op \in {"set_breakpoint", "remove_breakpoint"}

\* the session object exists and its id is no longer in the registry
Terminated == session.created /\ S1 \notin sessions

\* the tool calls that set breakpoints or control execution
SessionOps == {"set_breakpoint", "remove_breakpoint", "debug_continue"}

\* C1: whenever no breakpoint call is in flight, the cached line list of every
\* file of the session equals the line list of the last setBreakpoints request
\* sent for that file, also when that request was rejected or timed out
C1_CacheEqualsLastSent ==
  (S1 \in sessions /\ ~BreakpointCallInFlight) =>
    \A f \in Files : list_breakpoints(f) = lastSent[resolve(f)]

C5_NoEventAfterTerminate ==
  /\ []((last.op = "stop_debug_session" /\ last.res = "ok") => S1 \notin sessions)
  /\ [][(Terminated /\ last'.op \in {"event", "stopped handler"}) =>
          /\ session'.state = session.state
          /\ session'.currentThreadId = session.currentThreadId
          /\ session'.currentFrameId = session.currentFrameId]_vars

\* C6: when terminate has run, the session is evicted and no request is left
\* pending: every request that was awaiting its response is rejected with the
\* disconnection error
C6_TerminateRejectsPending ==
  Terminated =>
    /\ pendingRequests = <<>>
    /\ \A t \in DOMAIN tasks : tasks[t].res \in {NoResult, NotConnectedError}

\* C7: a session in state stopped or error stays in that state, and every
\* breakpoint or execution-control call made on it is refused
C7_StoppedIsTerminal ==
  [][session.state \in {"stopped", "error"} =>
       /\ session'.state = session.state
       /\ (inputs' = inputs + 1 /\ last'.op \in SessionOps) =>
             last'.res \in {"invalid params", "internal error"}]_vars

\* C10: when set_breakpoint(f, L) succeeds, the list that list_breakpoints(f)
\* prints contains L exactly once, and no cached list holds a line twice
C10_SetBreakpointIdempotent ==
  /\ (S1 \in sessions /\ last.op = "set_breakpoint" /\ last.res = "ok") =>
        Count(list_breakpoints(last.file), last.line) = 1
  /\ \A f \in Files, l \in Lines : Count(list_breakpoints(f), l) <= 1

\* a set_breakpoint(f, L) has succeeded when L was in the cached list already
C10_Witness ==
  /\ S1 \in sessions /\ last.op = "set_breakpoint" /\ last.res = "ok"
  /\ last.who = 1
  /\ Count(list_breakpoints(last.file), last.line) = 1

\* the step resumes a handler of the tool op whose awaited request was rejected
\* (by the adapter or by the request's timer)
ResumesRejected(op) ==
  \E t \in DOMAIN tasks :
    /\ tasks[t].op = op
    /\ tasks[t].res # NoResult /\ ~tasks[t].res.ok
    /\ t \notin DOMAIN tasks' \/ tasks'[t] # tasks[t]

\* the tools that control execution
ControlOps == {"debug_continue"} \cup StepOps

\* the tools that inspect the current frame
InspectOps == {"get_variables", "evaluate_expression"}

\* the step starts the tool call `op`
Calls(op) == inputs' = inputs + 1 /\ last'.op = op

\* C15: after the handshake the session's state becomes running only in the
\* step that handles the adapter's continued event, never in the step that
\* handles the response to a continue or step request
C15_RunningOnlyOnContinued ==
  [][(session.created /\ session.state # "running" /\ session'.state = "running") =>
       (last'.op = "event" /\ last'.res = "continued")]_vars

\* C16: a continue or step call made when the session is not paused or has no
\* current thread id fails with invalid params and sends no request
C16_ControlOnlyWhenPaused ==
  [][\A op \in ControlOps :
       (Calls(op) /\ ~(S1 \in sessions /\ session.state = "paused"
                       /\ session.currentThreadId # Undefined)) =>
          (last'.res = "invalid params" /\ inbox' = inbox)]_vars

\* C17: get_variables and evaluate_expression are accepted when the session is
\* paused with a current frame id, whatever its value, and connected; made in
\* any other state they fail with invalid params and send no request
C17_InspectOnlyWhenPaused ==
  [][\A op \in InspectOps :
       Calls(op) =>
         IF S1 \in sessions /\ session.state = "paused"
            /\ session.currentFrameId # Undefined
         THEN (session.dapClient /\ CanSend) => last'.res = "pending"
         ELSE last'.res = "invalid params" /\ inbox' = inbox]_vars

\* C18: a stopped event handled for a registered session makes it paused with
\* the event's thread id as current thread id; a stack trace with a frame
\* makes the top frame's id the current frame id; and in a paused session with
\* a current frame id get_call_stack and get_variables are not refused
C18_StoppedPauses ==
  [][/\ (S1 \in sessions /\ last'.op = "event" /\ last'.res = "stopped") =>
          (session'.state = "paused" /\ session'.currentThreadId = last'.msg.tid)
     /\ (last'.op = "stopped handler" /\ last'.res = "frame") =>
          session'.currentFrameId \in FrameIds
     /\ \A op \in {"get_call_stack", "get_variables"} :
          (Calls(op) /\ S1 \in sessions /\ session.dapClient
           /\ session.state = "paused" /\ session.currentFrameId # Undefined) =>
             last'.res # "invalid params"]_vars

\* C19: a continued event handled for a registered session makes it running
\* and leaves it without a current frame id
C19_ContinuedClearsFrame ==
  [][(S1 \in sessions /\ last'.op = "event" /\ last'.res = "continued") =>
       (session'.state = "running" /\ session'.currentFrameId = Undefined)]_vars

\* C24: when the evaluate request of evaluate_expression is rejected or times
\* out, the call returns the error as text (it does not throw) and the session
\* is as it was.
C24_EvaluateFailureIsResult ==
  [][ResumesRejected("evaluate_expression")
     => /\ last'.op = "evaluate_expression" /\ last'.res = "error text"
        /\ session' = session /\ sessions' = sessions]_vars

\* the one call so far was evaluate_expression; its request went out and
\* failed, and the call has returned the error as text
C24_Witness ==
  /\ last.op = "evaluate_expression" /\ last.res = "error text"
  /\ inputs = 1 /\ tasks = <<>>
  /\ sequenceNumber = 2 + HandshakeRequests(<<1>>)

\* C20: once the socket of a registered session is closed, the session is
\* stopped and no request is left pending: each was rejected with the
\* disconnection error
C20_SocketCloseFailsPending ==
  (S1 \in sessions /\ link = "closed") =>
    /\ session.state = "stopped"
    /\ pendingRequests = <<>>
    /\ \A t \in DOMAIN tasks : tasks[t].res \in {NoResult, NotConnectedError}

\* the log holds calls that did not overlap and that all succeeded
Sequential ==
  /\ Len(log) % 2 = 0
  /\ \A i \in 1..Len(log) : log[i].ev = IF i % 2 = 1 THEN "call" ELSE "ok"

\* C39: however the calls name a file, the lines cached for it under any of
\* its path strings are in the list the adapter was last sent for that source
\* (stated for calls that succeed one after the other, so that no rejected or
\* overlapping request is involved).
C39_OneListPerFile ==
  (S1 \in sessions /\ Sequential) =>
    \A f \in Files : Range(list_breakpoints(f)) \subseteq Range(lastSent[resolve(f)])

\* two set_breakpoint calls on one file overlapped and both succeeded
Overlapped ==
  /\ Len(log) = 4
  /\ \A i \in 1..4 : log[i].op = "set_breakpoint" /\ log[i].file = log[1].file
  /\ log[1].ev = "call" /\ log[2].ev = "call" /\ log[3].ev = "ok" /\ log[4].ev = "ok"
  /\ log[1].line # log[2].line
  /\ {log[3].line, log[4].line} = {log[1].line, log[2].line}

\* C34: when two set_breakpoint calls for one file with different lines
\* overlap and both succeed, both lines are in the cached list of the file and
\* in the list the adapter was last sent for it.
C34_NoLostUpdate ==
  (S1 \in sessions /\ Overlapped) =>
    /\ {log[1].line, log[2].line} \subseteq Range(list_breakpoints(log[1].file))
    /\ {log[1].line, log[2].line} \subseteq Range(lastSent[resolve(log[1].file)])

(***************************************************************************)
(* SpecBp: the breakpoint calls of an attached session whose cache for     *)
(* a.py already holds some lines.  The adapter answers or stays silent; it *)
(* sends no events and keeps the socket open.                               *)
(***************************************************************************)
\* lines a file may have cached from earlier set_breakpoint calls
PriorLines == 1..MaxPrior

\* the line lists earlier calls can have left in the cache: no line twice
PriorLists ==
  {l \in UNION {[1..n -> PriorLines] : n \in 0..MaxPrior} :
     \A i, j \in DOMAIN l : l[i] = l[j] => i = j}

\* the cache entry written by the call that sent `lines` and was answered
PriorBreakpoints(lines) ==
  CachedBreakpoints(ListBody(AdapterIds(Len(lines)), [i \in 1..Len(lines) |-> TRUE]),
                    lines)

\* after attach_to_debugpy and the earlier breakpoint calls on a.py
BpInit ==
  \E prior \in PriorLists :
    /\ sessions = {S1}
    /\ session = [created |-> TRUE, state |-> "running", currentThreadId |-> 1,
                  currentFrameId |-> 7, dapClient |-> TRUE,
                  breakpoints |-> [f \in Files |->
                     IF f = "a.py" THEN PriorBreakpoints(prior) ELSE <<>>]]
    /\ connected = TRUE /\ socket = TRUE /\ link = "open"
    /\ sequenceNumber = 1 + HandshakeRequests(<<1>>)
    /\ pendingRequests = <<>> /\ inbox = {}
    /\ lastSent = [f \in Sources |-> prior]
    /\ tasks = <<>> /\ inputs = 0 /\ log = <<>>
    /\ hs = NoHandshake /\ gv = NoInspection /\ ext = NoOutside /\ cx = NoConnect
    /\ portCounter = getNextPort(FirstPortCounter)
    /\ created = <<[kind |-> "attach", allocated |-> getNextPort(FirstPortCounter),
                    port |-> DefaultAttachPort]>>
    /\ last = NoStep
    /\ CorrIdle /\ FrameIdle

BpNext ==
  \/ \E file \in Files, line \in Lines : set_breakpoint(file, line)
  \/ \E t \in TaskIds : set_breakpoint_validated(t)
  \/ \E t \in TaskIds : set_breakpoint_done(t)
  \/ \E file \in Files, line \in Lines : remove_breakpoint(file, line)
  \/ \E t \in TaskIds : remove_breakpoint_done(t)
  \/ Respond
  \/ Timeout

SpecBp == BpInit /\ [][BpNext]_vars

\* entries i..i+3 of the log are a successful set_breakpoint(f, L) followed by
\* a successful remove_breakpoint(f, L), with no breakpoint call in between
SetThenRemove(i) ==
  /\ i + 3 <= Len(log)
  /\ log[i].op = "set_breakpoint" /\ log[i].ev = "call"
  /\ log[i + 1].op = "set_breakpoint" /\ log[i + 1].ev = "ok"
  /\ log[i + 2].op = "remove_breakpoint" /\ log[i + 2].ev = "call"
  /\ log[i + 3].op = "remove_breakpoint" /\ log[i + 3].ev = "ok"
  /\ \A k \in 1..3 : log[i + k].file = log[i].file /\ log[i + k].line = log[i].line

\* C11 (as stated): set_breakpoint(f, L), then remove_breakpoint(f, L), then
\* list_breakpoints(f) gives the list that list_breakpoints(f) gave before the
\* set, whatever that list was
C11_SetThenRemoveRestores ==
  \A i \in 1..Len(log) : SetThenRemove(i) => log[i + 3].lines = log[i].lines

\* C11 (amended): the same, for a line L that the list did not hold before
C11_SetNewThenRemoveRestores ==
  \A i \in 1..Len(log) :
    (SetThenRemove(i) /\ log[i].line \notin Range(log[i].lines)) =>
       log[i + 3].lines = log[i].lines

\* a new line was set and removed again on a file that had lines cached
C11_Witness ==
  \E i \in 1..Len(log) :
    /\ SetThenRemove(i)
    /\ Len(log[i].lines) >= 2
    /\ log[i].line \notin Range(log[i].lines)
    /\ log[i + 1].lines = Append(log[i].lines, log[i].line)
    /\ log[i + 3].lines = log[i].lines

\* C12: a setBreakpoints request is sent only by set_breakpoint or
\* remove_breakpoint, for the resolved path of the file, and it carries the
\* whole list: for set the cached lines in their order with a new line
\* appended last, for remove the cached lines without the target line, the
\* rest in their order
C12_AbsoluteReplacement ==
  [][\A req \in inbox' \ inbox :
       req.command = "setBreakpoints" =>
         LET cached == list_breakpoints(last'.file)
             L == last'.line
         IN /\ last'.op \in {"set_breakpoint", "remove_breakpoint"}
            /\ req.source = resolve(last'.file)
            /\ last'.op = "set_breakpoint" =>
                 req.lines = IF \E i \in 1..Len(cached) : cached[i] = L
                             THEN cached ELSE cached \o <<L>>
            /\ last'.op = "remove_breakpoint" =>
                 /\ Len(req.lines) = Len(cached) - Count(cached, L)
                 /\ \A l \in Range(req.lines) : l # L
                 /\ \A i, j \in 1..Len(cached) :
                      (i < j /\ cached[i] # L /\ cached[j] # L) =>
                         \E m, n \in 1..Len(req.lines) :
                            m < n /\ req.lines[m] = cached[i] /\ req.lines[n] = cached[j]]_vars

\* remove_breakpoint has sent a list that still holds two lines
C12_Witness ==
  /\ last.op = "remove_breakpoint" /\ last.res = "pending"
  /\ \E req \in inbox :
       /\ req.command = "setBreakpoints" /\ Len(req.lines) = 2
       /\ Len(list_breakpoints(last.file)) = 3

\* C23: a step of set_breakpoint that fails the call (line < 1, the threads
\* probe failed, setBreakpoints was rejected or timed out) leaves the session's
\* breakpoint table and state as they were, and for line < 1 sends nothing.
C23_FailedSetChangesNothing ==
  [][(/\ last'.op = "set_breakpoint"
      /\ last'.res \in {"invalid params", "internal error"} \/ ResumesRejected("set_breakpoint"))
     => /\ session' = session
        /\ last'.line < 1 => UNCHANGED <<inbox, sequenceNumber, pendingRequests, lastSent>>]_vars

\* set_breakpoint has failed after its setBreakpoints request, which named one
\* more line than is cached, was rejected or timed out
C23_Witness ==
  /\ last.op = "set_breakpoint" /\ last.res = "internal error"
  /\ list_breakpoints(last.file) # <<>>
  /\ Len(lastSent[resolve(last.file)]) = Len(list_breakpoints(last.file)) + 1

\* C33: when set_breakpoint or remove_breakpoint succeeds, the cached list of
\* the file has one entry per line of the request; entry i has the request's
\* line i, the verified flag of the response's entry i and the id the adapter
\* gave that entry, or the index i (counted from 0) when the adapter gave none.
C33_CachedFollowsResponse ==
  [][\A t \in DOMAIN tasks :
       (/\ tasks[t].pc \in {"set", "remove"}
        /\ t \notin DOMAIN tasks'
        /\ last'.res = "ok") =>
          LET body == tasks[t].res.body
              lines == tasks[t].lines
              bps == getBreakpoints(sessions', session', tasks[t].file)
          IN /\ Len(bps) = Len(lines)
             /\ \A i \in 1..Len(bps) :
                  /\ bps[i].line = lines[i]
                  /\ bps[i].verified = body.verified[i]
                  /\ bps[i].id = IF body.ids[i] = Undefined
                                 THEN i - 1 ELSE body.ids[i]]_vars

(***************************************************************************)
(* SpecPort: the ports of the sessions that start_debug_session and        *)
(* attach_to_debugpy create, whatever becomes of the sessions afterwards.  *)
(***************************************************************************)
\* ports a caller may pass to attach_to_debugpy
AttachPorts == {DefaultAttachPort, DefaultAttachPort + 1, DefaultAttachPort + 2}

PortInit ==
  /\ PortIdle /\ hs = NoHandshake /\ gv = NoInspection /\ ext = NoOutside /\ cx = NoConnect
  /\ sessions = {} /\ session = NoSession
  /\ lastSent = [f \in Sources |-> <<>>]
  /\ tasks = <<>> /\ inputs = 0 /\ log = <<>>
  /\ last = NoStep
  /\ ClientIdle /\ CorrIdle /\ FrameIdle

\* start_debug_session: createSession(resolve(cwd, script_path)); the session
\* keeps the allocator's port
start_debug_session_port ==
  /\ Len(created) < MaxSessions
  /\ SessionCreated("start", getNextPort(portCounter))
  /\ last' = [NoStep EXCEPT !.op = "start_debug_session"]
  /\ UNCHANGED <<sessions, session, lastSent, tasks, inputs, log, clientVars,
                 corrVars, frameVars, hs, gv, ext, cx>>

\* attach_to_debugpy: createSession(resolve(script_path)); session.port = port
attach_to_debugpy_port(port) ==
  /\ Len(created) < MaxSessions
  /\ SessionCreated("attach", port)
  /\ last' = [NoStep EXCEPT !.op = "attach_to_debugpy"]
  /\ UNCHANGED <<sessions, session, lastSent, tasks, inputs, log, clientVars,
                 corrVars, frameVars, hs, gv, ext, cx>>

PortNext ==
  \/ start_debug_session_port
  \/ \E port \in AttachPorts : attach_to_debugpy_port(port)

SpecPort == PortInit /\ [][PortNext]_vars

\* C13: the values the port allocator returns for successive session creations
\* are strictly increasing, and the first one is 5679
C13_AllocatorIncreases ==
  /\ \A i, j \in 1..Len(created) : i < j => created[i].allocated < created[j].allocated
  /\ created # <<>> => created[1].allocated = 5679

\* the allocator has served several sessions
C13_Witness ==
  /\ Len(created) >= 3
  /\ created[1].allocated = 5679
  /\ created[3].allocated > created[2].allocated

\* C14 (as stated): no two sessions created by start_debug_session or
\* attach_to_debugpy have the same port
C14_NoPortTwice ==
  \A i, j \in 1..Len(created) : i # j => created[i].port # created[j].port

\* C14 (amended): no two sessions created by start_debug_session have the same
\* port, and the allocator returns no value twice
C14_NoAllocatedPortTwice ==
  \A i, j \in 1..Len(created) :
    i # j =>
      /\ created[i].allocated # created[j].allocated
      /\ (created[i].kind = "start" /\ created[j].kind = "start") =>
            created[i].port # created[j].port

\* two sessions were started and two attached, the attached ones to one port
C14_Witness ==
  \E i, j, k, l \in 1..Len(created) :
    /\ i # j /\ created[i].kind = "start" /\ created[j].kind = "start"
    /\ created[i].port # created[j].port
    /\ k # l /\ created[k].kind = "attach" /\ created[l].kind = "attach"
    /\ created[k].port = created[l].port

(***************************************************************************)
(* SpecCorr: the correlator of one connected DAP client.  Callers issue    *)
(* requests; the adapter answers any sequence number in any order, also    *)
(* twice or never, and sends events in between; timers fire; the client is *)
(* closed or the adapter closes the socket.                                *)
(***************************************************************************)
\* the state after `new DAPClient(port)` and a successful connect()
CorrInit ==
  /\ connected = TRUE /\ socket = TRUE /\ link = "open"
  /\ sequenceNumber = 1
  /\ pendingRequests = <<>>
  /\ inbox = {}
  /\ issued = <<>>
  /\ timers = {}
  /\ last = NoStep
  /\ SessIdle /\ FrameIdle

\* sequence numbers a response of the adapter may name
CorrSeqs == 1..(MaxCorrRequests + 1)

\* error messages a failed response may carry ("" is a response without one)
Messages == {"", "boom"}

\* bodies of SpecCorr's responses
CorrBodies == {ListBody(<<1>>, <<>>), ListBody(<<2>>, <<>>)}

\* the responses the adapter may write: a success with a body, or a failure
\* with or without a message
CorrResponses ==
  {Response(seq, TRUE, "", body) : seq \in CorrSeqs, body \in CorrBodies}
  \cup {Response(seq, FALSE, message, AbsentBody) : seq \in CorrSeqs, message \in Messages}

\* sendRequest(command, args), called by caller number Len(issued) + 1
CorrSend ==
  /\ Len(issued) < MaxCorrRequests
  /\ IF ~CanSend
     THEN /\ issued' = Append(issued, [seq |-> 0, settled |-> <<NotConnectedError>>])
          /\ last' = [NoStep EXCEPT !.op = "send", !.who = Len(issued) + 1,
                                    !.res = "not connected"]
          /\ UNCHANGED <<sequenceNumber, pendingRequests, timers>>
     ELSE /\ sequenceNumber' = NextSequenceNumber(sequenceNumber)
          /\ pendingRequests' =
               PendingAfterSend(pendingRequests, sequenceNumber, Len(issued) + 1)
          /\ timers' = timers \cup {sequenceNumber}
          /\ issued' = Append(issued, [seq |-> sequenceNumber, settled |-> <<>>])
          /\ last' = [NoStep EXCEPT !.op = "send", !.who = Len(issued) + 1,
                                    !.seq = sequenceNumber, !.res = "pending"]
  /\ UNCHANGED <<connected, socket, link, inbox, sessVars, frameVars>>

\* handleMessage(message) for a response read from the socket
CorrResponse ==
  \E msg \in CorrResponses :
    LET seq == msg.request_seq IN
    /\ link \in {"open", "ended"}
    /\ pendingRequests' = PendingAfterMessage(pendingRequests, msg)
    /\ IF Matches(pendingRequests, msg)
       THEN LET who == Waiter(pendingRequests, msg) IN
            /\ issued' = [issued EXCEPT ![who].settled = Append(@, SettleWith(msg))]
            /\ last' = [NoStep EXCEPT !.op = "response", !.seq = seq, !.who = who,
                                      !.msg = msg, !.res = "settled"]
       ELSE /\ issued' = issued
            /\ last' = [NoStep EXCEPT !.op = "response", !.seq = seq,
                                      !.msg = msg, !.res = "ignored"]
    /\ UNCHANGED <<connected, socket, link, sequenceNumber, inbox, timers,
                   sessVars, frameVars>>

\* handleMessage(message) for an event: it is emitted, the pending table is not touched
CorrEvent ==
  \E name \in {"stopped", "output"} :
    /\ link \in {"open", "ended"}
    /\ last' = [NoStep EXCEPT !.op = "event", !.msg = Event(name, 1)]
    /\ UNCHANGED <<clientVars, corrVars, sessVars, frameVars>>

\* the request whose promise the timer of seq closes over
RequestOf(seq) == CHOOSE r \in 1..Len(issued) : issued[r].seq = seq

\* the 10 s timer of the request with sequence number seq fires
CorrTimeout(seq) ==
  /\ seq \in timers
  /\ timers' = timers \ {seq}
  /\ IF TimeoutApplies(pendingRequests, seq)
     THEN /\ pendingRequests' = PendingAfterTimeout(pendingRequests, seq)
          /\ issued' = [issued EXCEPT ![RequestOf(seq)].settled =
                                         Append(@, TimeoutError)]
          /\ last' = [NoStep EXCEPT !.op = "timeout", !.seq = seq,
                                    !.who = RequestOf(seq), !.res = "settled"]
     ELSE /\ UNCHANGED <<pendingRequests, issued>>
          /\ last' = [NoStep EXCEPT !.op = "timeout", !.seq = seq, !.res = "ignored"]
  /\ UNCHANGED <<connected, socket, link, sequenceNumber, inbox, sessVars, frameVars>>

\* DAPClient.close()
CorrClose ==
  /\ socket
  /\ link' = LinkAfterClose(link, socket)
  /\ socket' = FALSE
  /\ connected' = FALSE
  /\ last' = [NoStep EXCEPT !.op = "close"]
  /\ UNCHANGED <<sequenceNumber, pendingRequests, inbox, corrVars, sessVars, frameVars>>

\* the socket's 'close' handler: the connection is gone
CorrSocketClosed ==
  /\ link \in {"open", "ended"}
  /\ link' = "closed"
  /\ connected' = FALSE
  /\ last' = [NoStep EXCEPT !.op = "socket closed"]
  /\ UNCHANGED <<socket, sequenceNumber, pendingRequests, inbox, corrVars,
                 sessVars, frameVars>>

CorrNext ==
  \/ CorrSend
  \/ CorrResponse
  \/ CorrEvent
  \/ \E seq \in CorrSeqs : CorrTimeout(seq)
  \/ CorrClose
  \/ CorrSocketClosed

SpecCorr == CorrInit /\ [][CorrNext]_vars

\* Node fires every timer that was set
SpecCorrFair == SpecCorr /\ \A seq \in CorrSeqs : WF_vars(CorrTimeout(seq))

(***************************************************************************)
(* Claims about the correlator.                                            *)
(***************************************************************************)
\* the outcome a request has been settled with, if exactly one
Outcome(r) == issued[r].settled[1]

\* request r has been issued and settled exactly once
SettledOnce(r) == r <= Len(issued) /\ Len(issued[r].settled) = 1

\* no promise of sendRequest is settled twice
SettledAtMostOnce == \A r \in 1..Len(issued) : Len(issued[r].settled) <= 1

\* C2: every request issued through the DAP client is settled, and settled only
\* once: by its matching response, by the timeout error of its timer, or by the
\* 'not connected' error that sendRequest throws.
C2_ExactlyOneOutcome ==
  /\ []SettledAtMostOnce
  /\ \A r \in 1..MaxCorrRequests :
       [](Len(issued) >= r => <>SettledOnce(r))
  /\ [](\A r \in 1..Len(issued) :
          (issued[r].seq = 0 /\ issued[r].settled # <<>>)
            => Outcome(r) = NotConnectedError)

\* C2 witness: a request was rejected by its timer and the response that came
\* for it afterwards was ignored; another caller got the transport error.
C2_Witness ==
  /\ Len(issued) = 2
  /\ issued[1].seq = 1 /\ issued[1].settled = <<TimeoutError>>
  /\ issued[2].settled = <<NotConnectedError>>
  /\ last.op = "response" /\ last.seq = 1 /\ last.res = "ignored"

\* C8: a response settles the request that was issued with the sequence number
\* the response names in request_seq, with the response's body, and settles no
\* other request, in whatever order responses and events arrive.
C8_ResponseSettlesItsRequest ==
  [][(last'.op = "response" /\ last'.res = "settled") =>
       \A r \in 1..Len(issued) :
         IF issued[r].seq = last'.msg.request_seq
         THEN /\ Len(issued'[r].settled) = Len(issued[r].settled) + 1
              /\ last'.msg.success =>
                   issued'[r].settled[Len(issued'[r].settled)].body = last'.msg.body
         ELSE issued'[r] = issued[r]]_vars

\* C8 witness: requests 1 and 2 were in flight together; the response for 2
\* arrived first, then the one for 1, and each got its own body.
C8_Witness ==
  /\ Len(issued) = 2
  /\ issued[1].seq = 1 /\ issued[2].seq = 2
  /\ last.op = "response" /\ last.res = "settled" /\ last.seq = 1
  /\ issued[2].settled = <<Resolved(ListBody(<<2>>, <<>>))>>
  /\ issued[1].settled = <<Resolved(ListBody(<<1>>, <<>>))>>

\* C9: a response whose request_seq is in the pending table removes that entry;
\* the request is resolved with the body when success is true, and rejected with
\* an error carrying the response's message otherwise.
C9_MatchingResponseSettles ==
  [][(last'.op = "response" /\ last'.msg.request_seq \in DOMAIN pendingRequests) =>
       LET msg == last'.msg
           r == pendingRequests[msg.request_seq]
           out == issued'[r].settled[Len(issued'[r].settled)]
       IN /\ msg.request_seq \notin DOMAIN pendingRequests'
          /\ Len(issued'[r].settled) = Len(issued[r].settled) + 1
          /\ msg.success => out = Resolved(msg.body)
          /\ (~msg.success /\ msg.message # "") =>
               (~out.ok /\ out.err = msg.message)]_vars

\* C9 witness: a failed response with a message has rejected its request
C9_Witness ==
  /\ last.op = "response" /\ last.res = "settled"
  /\ ~last.msg.success /\ last.msg.message = "boom"
  /\ issued[last.who].settled = <<Rejected("boom")>>
  /\ last.seq \notin DOMAIN pendingRequests

\* the requests that were given a sequence number, in issue order
Numbered == SelectSeq(issued, LAMBDA r : r.seq # 0)

\* C26: the sequence numbers of the requests of a client start at 1 and rise
\* in issue order, and every key of the pending table belongs to one request.
C26_SequenceNumbersIncrease ==
  /\ Numbered # <<>> => Numbered[1].seq = 1
  /\ \A i, j \in 1..Len(Numbered) : i < j => Numbered[i].seq < Numbered[j].seq
  /\ \A s \in DOMAIN pendingRequests :
       Cardinality({i \in 1..Len(issued) : issued[i].seq = s}) = 1

\* two requests are pending under the keys 1 and 2
C26_Witness ==
  /\ Len(issued) = 2 /\ issued[1].seq = 1 /\ issued[2].seq = 2
  /\ DOMAIN pendingRequests = {1, 2}

\* C40: a response whose request_seq is no key of the pending table (a number
\* never issued, a second response, a response after the timer has rejected
\* the request) settles no request, leaves the table as it is and does not
\* touch the session.
C40_UnmatchedResponseIgnored ==
  [][(last'.op = "response" /\ last'.msg.request_seq \notin DOMAIN pendingRequests) =>
       /\ issued' = issued
       /\ pendingRequests' = pendingRequests
       /\ UNCHANGED <<sessions, session>>]_vars

\* request 1 was resolved by its response; a second response for 1 has just
\* been ignored while request 2 is still pending
C40_Witness ==
  /\ Len(issued) = 2
  /\ issued[1].seq = 1 /\ issued[1].settled = <<Resolved(ListBody(<<1>>, <<>>))>>
  /\ issued[2].seq = 2 /\ issued[2].settled = <<>>
  /\ DOMAIN pendingRequests = {2}
  /\ last.op = "response" /\ last.seq = 1 /\ last.res = "ignored"

(***************************************************************************)
(* SpecFrame: DAPClient.handleData.  The socket delivers bytes in chunks;  *)
(* each chunk is decoded to a string and appended to messageBuffer, from   *)
(* which complete frames are cut.  The text "Content-Length: " is the one  *)
(* character "C" here; every other character of a frame is one character.  *)
(* The body of a message is its JSON text, shortened to a brace, a letter   *)
(* for the fields and, for an output event, the characters of its text.     *)
(***************************************************************************)
\* the two bytes that "é" (U+00E9) is in UTF-8
Lead == "\\xC3"
Cont == "\\xA9"

\* U+FFFD, which Buffer.toString() writes for a byte sequence that is not UTF-8
Replacement == "\\uFFFD"

Digits == <<"0", "1", "2", "3", "4", "5", "6", "7", "8", "9">>

IsDigit(c) == c \in Range(Digits)

\* the value of a digit character
DigitValue(c) == (CHOOSE i \in 1..10 : Digits[i] = c) - 1

\* the decimal text of n (n < 100)
NumberText(n) ==
  IF n < 10 THEN <<Digits[n + 1]>> ELSE <<Digits[(n \div 10) + 1], Digits[(n % 10) + 1]>>

CRLFCRLF == <<"\\r", "\\n", "\\r", "\\n">>

\* the messages the adapter frames in SpecFrame
InitializedEvent == "initialized event"
InitializeResponse == "initialize response"
OutputAscii == "output event, text a"
OutputAccent == "output event, text e-acute"
OutputGarbled == "output event, text U+FFFD"
FrameMessages == {InitializedEvent, InitializeResponse, OutputAscii, OutputAccent}

\* JSON text of a message, as characters
JsonText(m) ==
  CASE m = InitializedEvent -> <<"{", "E", "}">>
    [] m = InitializeResponse -> <<"{", "R", "}">>
    [] m = OutputAscii -> <<"{", "O", "a", "}">>
    [] m = OutputAccent -> <<"{", "O", "e'", "}">>
    [] m = OutputGarbled -> <<"{", "O", Replacement, "}">>

\* UTF-8 encoding of a string
RECURSIVE Utf8(_)
Utf8(text) ==
  IF text = <<>> THEN <<>>
  ELSE (IF Head(text) = "e'" THEN <<Lead, Cont>> ELSE <<Head(text)>>) \o Utf8(Tail(text))

\* a well-formed frame: Content-Length is the byte length of the body
FrameBytes(m) ==
  <<"C">> \o NumberText(Len(Utf8(JsonText(m)))) \o CRLFCRLF \o Utf8(JsonText(m))

RECURSIVE StreamBytes(_)
StreamBytes(ms) == IF ms = <<>> THEN <<>> ELSE FrameBytes(Head(ms)) \o StreamBytes(Tail(ms))

\* data.toString(): UTF-8 decoding of one chunk on its own
RECURSIVE ChunkToString(_)
ChunkToString(bytes) ==
  IF bytes = <<>> THEN <<>>
  ELSE IF Head(bytes) = Lead /\ Len(bytes) >= 2 /\ bytes[2] = Cont
       THEN <<"e'">> \o ChunkToString(Tail(Tail(bytes)))
  ELSE IF Head(bytes) \in {Lead, Cont}
       THEN <<Replacement>> \o ChunkToString(Tail(bytes))
  ELSE <<Head(bytes)>> \o ChunkToString(Tail(bytes))

\* JSON.parse(messageContent): the message, or "SyntaxError"
JsonParse(text) ==
  IF \E m \in FrameMessages \cup {OutputGarbled} : JsonText(m) = text
  THEN CHOOSE m \in FrameMessages \cup {OutputGarbled} : JsonText(m) = text
  ELSE "SyntaxError"

\* this.messageBuffer.indexOf('\r\n\r\n'), 1-based; 0 when absent
HeaderEnd(buf) ==
  LET hits == {i \in 1..(Len(buf) - 3) : SubSeq(buf, i, i + 3) = CRLFCRLF}
  IN IF hits = {} THEN 0 ELSE CHOOSE i \in hits : \A j \in hits : i <= j

\* parseInt of the digits that start at position i of s
RECURSIVE DigitsFrom(_, _, _)
DigitsFrom(s, i, acc) ==
  IF i <= Len(s) /\ IsDigit(s[i]) THEN DigitsFrom(s, i + 1, acc * 10 + DigitValue(s[i]))
  ELSE acc

\* headers.match(/Content-Length: (\d+)/): the length, or -1 for no match
ContentLength(headers) ==
  LET hits == {i \in 1..(Len(headers) - 1) : headers[i] = "C" /\ IsDigit(headers[i + 1])}
  IN IF hits = {} THEN -1
     ELSE DigitsFrom(headers, (CHOOSE i \in hits : \A j \in hits : i <= j) + 1, 0)

\* the `while (true)` loop of handleData on the buffer buf: what is left of the
\* buffer, the messages handed to handleMessage and the errors logged
RECURSIVE Deframe(_, _, _)
Deframe(buf, out, errs) ==
  LET headerEnd == HeaderEnd(buf)
      contentLength == ContentLength(SubSeq(buf, 1, headerEnd - 1))
      \* 0-based offsets of the source, kept as such
      messageStart == (headerEnd - 1) + 4
      messageEnd == messageStart + contentLength
      messageContent == SubSeq(buf, messageStart + 1, messageEnd)
      rest == SubSeq(buf, messageEnd + 1, Len(buf))
      message == JsonParse(messageContent)
  IN IF headerEnd = 0 THEN [buf |-> buf, out |-> out, errs |-> errs]
     ELSE IF contentLength = -1 THEN [buf |-> buf, out |-> out, errs |-> errs + 1]
     ELSE IF Len(buf) < messageEnd THEN [buf |-> buf, out |-> out, errs |-> errs]
     ELSE IF message = "SyntaxError" THEN Deframe(rest, out, errs + 1)
     ELSE Deframe(rest, Append(out, message), errs)

\* (mutant) the messages cut from one chunk are handled last one first
HandleDataLastFirst(buf, data) ==
  LET r == Deframe(buf \o ChunkToString(data), <<>>, 0)
  IN [r EXCEPT !.out = [i \in 1..Len(r.out) |-> r.out[Len(r.out) + 1 - i]]]

\* handleData(data)
HandleData(buf, data) == Deframe(buf \o ChunkToString(data), <<>>, 0)

\* sequences of at most n messages
FrameSeqs(n) == UNION {[1..k -> FrameMessages] : k \in 1..n}

\* the adapter has written the frames of `original`; nothing has arrived yet
FrameInit ==
  /\ original \in FrameSeqs(MaxFrames)
  /\ wire = StreamBytes(original)
  /\ messageBuffer = <<>>
  /\ dispatched = <<>>
  /\ errors = 0
  /\ last = NoStep
  /\ SessIdle /\ ClientIdle /\ CorrIdle

\* the socket's 'data' handler is called with the next k bytes
FrameData ==
  \E k \in 1..Len(wire) :
    LET r == HandleData(messageBuffer, SubSeq(wire, 1, k)) IN
    /\ wire' = SubSeq(wire, k + 1, Len(wire))
    /\ messageBuffer' = r.buf
    /\ dispatched' = dispatched \o r.out
    /\ errors' = errors + r.errs
    /\ last' = [NoStep EXCEPT !.op = "data", !.line = k]
    /\ UNCHANGED <<original, sessVars, clientVars, corrVars>>

FrameNext == FrameData

SpecFrame == FrameInit /\ [][FrameNext]_vars

\* the body of every frame is ASCII
AsciiOnly == \A i \in 1..Len(original) : original[i] # OutputAccent

\* C3: once all bytes of the frames have arrived, in whatever chunks, the
\* messages dispatched are the original messages, in order, each once.
C3_DeframeRoundTrip == wire = <<>> => dispatched = original

\* handleMessage emits a message of type 'event' to the subscribers
IsEvent(m) == m \in {InitializedEvent, OutputAscii, OutputAccent, OutputGarbled}

EventsOf(ms) == SelectSeq(ms, IsEvent)

\* the frame a delivered event was cut from
FrameOf(m) == IF m = OutputGarbled THEN OutputAccent ELSE m

\* a can be had from b by leaving elements out
RECURSIVE IsSubsequence(_, _)
IsSubsequence(a, b) ==
  IF a = <<>> THEN TRUE
  ELSE IF b = <<>> THEN FALSE
  ELSE IF Head(a) = Head(b) THEN IsSubsequence(Tail(a), Tail(b))
  ELSE IsSubsequence(a, Tail(b))

\* C27: the events emitted so far are events of the stream in the order of
\* their frames, none twice and none before an earlier one, whatever responses
\* lie between them; with ASCII bodies all of them are emitted once the bytes
\* have arrived.
C27_EventsInArrivalOrder ==
  LET emitted == EventsOf(dispatched)
      frames == [i \in 1..Len(emitted) |-> FrameOf(emitted[i])]
  IN /\ IsSubsequence(frames, EventsOf(original))
     /\ (AsciiOnly /\ wire = <<>>) => frames = EventsOf(original)

\* two different events with a response between them have been emitted
C27_Witness ==
  /\ wire = <<>>
  /\ original = <<OutputAscii, InitializeResponse, InitializedEvent>>
  /\ EventsOf(dispatched) = <<OutputAscii, InitializedEvent>>

(***************************************************************************)
(* SpecDamaged: DAPClient.handleData when the adapter's stream holds frames *)
(* that are not well formed, among well-formed frames with ASCII bodies.    *)
(***************************************************************************)
\* a header block without Content-Length, followed by a JSON body
NoLengthFrame == "frame without Content-Length"
\* a frame whose Content-Length is right and whose body is not JSON
NotJsonFrame == "frame with a body that is not JSON"
DamagedFrames == {NoLengthFrame, NotJsonFrame}

\* the well-formed frames of SpecDamaged
AsciiMessages == {InitializedEvent, InitializeResponse, OutputAscii}

IsWellFormed(m) == m \in AsciiMessages

\* the bytes the adapter writes for one frame ("X" is some other header line)
WireBytes(m) ==
  CASE m = NoLengthFrame -> <<"X">> \o CRLFCRLF \o JsonText(InitializedEvent)
    [] m = NotJsonFrame -> <<"C", "2">> \o CRLFCRLF \o <<"{", "?">>
    [] OTHER -> FrameBytes(m)

RECURSIVE DamagedStream(_)
DamagedStream(ms) ==
  IF ms = <<>> THEN <<>> ELSE WireBytes(Head(ms)) \o DamagedStream(Tail(ms))

\* sequences of at most n frames, at least one of them damaged
DamagedSeqs(n) ==
  {ms \in UNION {[1..k -> AsciiMessages \cup DamagedFrames] : k \in 1..n} :
     \E i \in 1..Len(ms) : ms[i] \in DamagedFrames}

DamagedInit ==
  /\ original \in DamagedSeqs(MaxFrames)
  /\ wire = DamagedStream(original)
  /\ messageBuffer = <<>>
  /\ dispatched = <<>>
  /\ errors = 0
  /\ last = NoStep
  /\ SessIdle /\ ClientIdle /\ CorrIdle

DamagedNext == FrameData

SpecDamaged == DamagedInit /\ [][DamagedNext]_vars

\* the well-formed frames of the stream, in order
WellFormedOf(ms) == SelectSeq(ms, IsWellFormed)

\* C21: once all bytes have arrived, an error has been reported for the damaged
\* frame and every well-formed frame of the stream, also those behind the
\* damaged one, has been dispatched.
C21_ForwardProgress ==
  wire = <<>> => (errors >= 1 /\ dispatched = WellFormedOf(original))

\* the part of C21 that holds: a frame whose body is not JSON is skipped
C21_NotJsonIsSkipped ==
  (wire = <<>> /\ \A i \in 1..Len(original) : original[i] # NoLengthFrame)
    => (errors >= 1 /\ dispatched = WellFormedOf(original))

(***************************************************************************)
(* SpecStart: the handlers of start_debug_session and attach_to_debugpy    *)
(* with their handshake, step by step.  hs.pc is the await the handler is  *)
(* suspended at; hs.reply is what the awaited request was settled with     *)
(* ("none" while it is outstanding); hs.promise is the initializedPromise   *)
(* of the current attach attempt.  hs.cause is the error caught last and    *)
(* hs.thrown the cause the error that reaches the caller carries.           *)
(* hs.heard is where the handler was when `initialized` was dispatched.     *)
(***************************************************************************)
\* `initialized` events the adapter sends during one handshake
MaxInitialized == 1

\* retryDAPOperation(() => dapClient.initialize(), 'initialize', 3, ...)
InitializeRetries == 3
\* performAttachSequence: for (let attempt = 1; attempt <= 3; attempt++)
AttachAttempts == 3
\* retryDAPOperation(() => dapClient.configurationDone(), 'configurationDone', 2, ...)
ConfigurationDoneRetries == 2

\* maxRetries of retryDAPOperation for the two requests it wraps
maxRetries(step) ==
  IF step = "initialize" THEN InitializeRetries ELSE ConfigurationDoneRetries

RequestFailed == "Request failed"
RequestTimeout == TimeoutError.err
NotConnected == NotConnectedError.err
InitializedTimeout == "Timeout waiting for initialized event"
AttachSequenceFailed == "Attach sequence failed after retries"
NotInstalled == "debugpy is not installed"
ConnectRefused == "connect ECONNREFUSED"
ConnectPollFailed == "Failed to connect to debugpy within 10000ms"

\* the awaits that wait for the response to a request
RequestPcs == {"initialize", "attach", "validate", "configurationDone", "threads", "stackTrace"}

\* sendRequest(command) by the handler h: written and pending when the client
\* is connected, rejected at once otherwise
Request(h, pc, command, can) ==
  IF can THEN [h EXCEPT !.pc = pc, !.sent[command] = @ + 1, !.reply = "none"]
  ELSE [h EXCEPT !.pc = pc, !.reply = NotConnected]

\* the outer catch block: terminateSession(session.id), then the McpError
Fail(h, cause, thrown) ==
  /\ session' = terminateSession(session)
  /\ sessions' = sessions \ {S1}
  /\ IF session.dapClient
     THEN /\ link' = LinkAfterClose(link, socket)
          /\ socket' = FALSE
          /\ connected' = FALSE
     ELSE UNCHANGED <<connected, socket, link>>
  /\ hs' = [h EXCEPT !.pc = "done", !.result = "error", !.cause = cause, !.thrown = thrown,
                     !.process = IF h.owned /\ h.process = "spawned" THEN "signalled" ELSE @]

\* the handler returns: updateSessionState(session.id, 'running')
Succeed(h, sess) ==
  /\ session' = updateSessionState(sessions, sess, "running")
  /\ hs' = [h EXCEPT !.pc = "done", !.result = "ok"]
  /\ UNCHANGED <<sessions, connected, socket, link>>

StartInit == Init

\* start_debug_session up to `await processManager.startPythonProcess(...)`,
\* which awaits checkDebugpyAvailable first
start_debug_session ==
  /\ hs.pc = "idle" /\ ~session.created
  /\ sessions' = {S1}
  /\ session' = [NoSession EXCEPT !.created = TRUE, !.state = "starting"]
  /\ SessionCreated("start", getNextPort(portCounter))
  /\ hs' = [hs EXCEPT !.variant = "start", !.pc = "checkDebugpyAvailable"]
  /\ last' = [NoStep EXCEPT !.op = "start_debug_session"]
  /\ UNCHANGED <<clientVars, lastSent, tasks, inputs, log, corrVars, frameVars, gv, ext, cx>>

\* startPythonProcess after checkDebugpyAvailable: spawn, new DAPClient,
\* `await this.waitForConnection(...)`; a failed check throws before the spawn
startPythonProcess(ok) ==
  /\ hs.pc = "checkDebugpyAvailable"
  /\ IF ok
     THEN /\ hs' = [hs EXCEPT !.pc = "waitForConnection", !.process = "spawned"]
          /\ UNCHANGED <<sessions, session, connected, socket, link>>
     ELSE Fail(hs, NotInstalled, NotInstalled)
  /\ last' = [NoStep EXCEPT !.op = "startPythonProcess", !.res = IF ok THEN "ok" ELSE "failed"]
  /\ UNCHANGED <<sequenceNumber, pendingRequests, inbox, lastSent, tasks, inputs, log,
                 portVars, corrVars, frameVars, gv, ext, cx>>

\* waitForConnection returns or throws; on return the handler stores
\* session.pythonProcess and session.dapClient, registers the event handlers
\* and starts retryDAPOperation(initialize)
waitForConnection(ok) ==
  /\ hs.pc = "waitForConnection"
  /\ IF ok
     THEN /\ connected' = TRUE /\ socket' = TRUE /\ link' = "open"
          /\ session' = [session EXCEPT !.dapClient = TRUE]
          /\ hs' = Request([hs EXCEPT !.owned = TRUE, !.step = "initialize", !.attempt = 1],
                           "initialize", "initialize", TRUE)
          /\ UNCHANGED sessions
     ELSE Fail(hs, ConnectRefused, ConnectPollFailed)
  /\ last' = [NoStep EXCEPT !.op = "waitForConnection", !.res = IF ok THEN "ok" ELSE "failed"]
  /\ UNCHANGED <<sequenceNumber, pendingRequests, inbox, lastSent, tasks, inputs, log,
                 portVars, corrVars, frameVars, gv, ext, cx>>

\* attach_to_debugpy up to `await dapClient.connect(5000)`: the client is
\* stored in the session before it connects
attach_to_debugpy ==
  /\ hs.pc = "idle" /\ ~session.created
  /\ sessions' = {S1}
  /\ session' = [NoSession EXCEPT !.created = TRUE, !.state = "starting", !.dapClient = TRUE]
  /\ SessionCreated("attach", DefaultAttachPort)
  /\ socket' = TRUE
  /\ hs' = [hs EXCEPT !.variant = "attach", !.pc = "connect"]
  /\ last' = [NoStep EXCEPT !.op = "attach_to_debugpy"]
  /\ UNCHANGED <<connected, link, sequenceNumber, pendingRequests, inbox, lastSent, tasks,
                 inputs, log, corrVars, frameVars, gv, ext, cx>>

\* dapClient.connect(5000) resolves or rejects
connect(ok) ==
  /\ hs.pc = "connect"
  /\ IF ok
     THEN /\ connected' = TRUE /\ link' = "open"
          /\ hs' = Request([hs EXCEPT !.step = "initialize", !.attempt = 1],
                           "initialize", "initialize", TRUE)
          /\ UNCHANGED <<sessions, session, socket>>
     ELSE Fail(hs, ConnectRefused, ConnectRefused)
  /\ last' = [NoStep EXCEPT !.op = "connect", !.res = IF ok THEN "ok" ELSE "failed"]
  /\ UNCHANGED <<sequenceNumber, pendingRequests, inbox, lastSent, tasks, inputs, log,
                 portVars, corrVars, frameVars, gv, ext, cx>>

\* what the handshake steps below leave alone
StartFrame ==
  UNCHANGED <<sequenceNumber, pendingRequests, inbox, lastSent, tasks, inputs, log,
              portVars, corrVars, frameVars, gv, ext, cx>>

\* the awaited request is settled: by the adapter's response while the
\* connection is open, or by the 10 s timer of sendRequest
HandshakeReply(r) ==
  /\ hs.pc \in RequestPcs /\ hs.reply = "none"
  /\ r \in {"ok", RequestFailed} => link = "open"
  /\ hs' = [hs EXCEPT !.reply = r]
  /\ last' = [NoStep EXCEPT !.op = "reply", !.file = hs.pc, !.res = r]
  /\ UNCHANGED <<sessions, session, connected, socket, link>>
  /\ StartFrame

\* the handler is inside performAttachSequence: awaiting the attach request or
\* initializedPromise, or sleeping between two attempts
InAttachSequence ==
  hs.step = "attach" /\ hs.pc \in {"attach", "await_initialized", "backoff"}

\* the `initialized` event is dispatched: the once-listeners registered so far
\* run, and the one of the current attempt resolves its promise
on_initialized ==
  /\ link = "open" /\ hs.pc # "done"
  /\ hs.events < MaxInitialized
  /\ hs' = [hs EXCEPT !.events = @ + 1,
                      !.heard = IF InAttachSequence THEN hs.pc ELSE "outside",
                      !.promise = IF @ = "pending" THEN "resolved" ELSE @]
  /\ last' = [NoStep EXCEPT !.op = "event", !.file = hs.pc, !.res = "initialized"]
  /\ UNCHANGED <<sessions, session, connected, socket, link>>
  /\ StartFrame

\* performAttachSequence, one attempt up to `await dapClient.attach()`: the
\* listener and its 15 s timer are set up, then attach is sent
AttachAttempt(h, attempt) ==
  Request([h EXCEPT !.step = "attach", !.attempt = attempt, !.promise = "pending"],
          "attach", "attach", CanSend)

\* validateDAPConnection up to `await dapClient.threads()`
Validate(h) == Request(h, "validate", "threads", CanSend)

\* retryDAPOperation: the awaited initialize or configurationDone is settled
retryDAPOperation(step) ==
  /\ hs.pc = step /\ hs.reply # "none"
  /\ IF hs.reply = "ok"
     THEN /\ hs' = IF step = "initialize"
                   THEN AttachAttempt(hs, 1)
                   ELSE Request([hs EXCEPT !.configured = TRUE], "threads", "threads", CanSend)
          /\ UNCHANGED <<sessions, session, connected, socket, link>>
     ELSE IF hs.attempt = maxRetries(step)
     THEN Fail(hs, hs.reply, hs.reply)
     ELSE /\ hs' = [hs EXCEPT !.pc = "backoff", !.cause = hs.reply]
          /\ UNCHANGED <<sessions, session, connected, socket, link>>
  /\ last' = [NoStep EXCEPT !.op = "retryDAPOperation", !.file = step, !.res = hs.reply]
  /\ StartFrame

\* retryDAPOperation: the backoff timer fires and the operation is called again
retryDAPOperation_retry(step) ==
  /\ hs.pc = "backoff" /\ hs.step = step
  /\ hs' = Request([hs EXCEPT !.attempt = @ + 1], step, step, CanSend)
  /\ last' = [NoStep EXCEPT !.op = "retry", !.file = step]
  /\ UNCHANGED <<sessions, session, connected, socket, link>>
  /\ StartFrame

\* (mutant) the attempt goes on without awaiting initializedPromise
AfterAttachEager(h) == Validate(h)

\* (mutant) a rejected attach request fails the attempt
AfterAttachStrict(h) ==
  IF h.reply # "ok" THEN [h EXCEPT !.pc = "backoff", !.cause = h.reply]
  ELSE IF h.promise = "resolved" THEN Validate(h)
  ELSE [h EXCEPT !.pc = "await_initialized"]

\* performAttachSequence after `await dapClient.attach()`, however it was
\* settled: `await initializedPromise; return true`
AfterAttach(h) ==
  IF h.promise = "resolved" THEN Validate(h)
  ELSE [h EXCEPT !.pc = "await_initialized"]

\* performAttachSequence: the attach request is settled
performAttachSequence_attached ==
  /\ hs.pc = "attach" /\ hs.reply # "none"
  /\ hs' = AfterAttach(hs)
  /\ last' = [NoStep EXCEPT !.op = "performAttachSequence", !.file = "attach", !.res = hs.reply]
  /\ UNCHANGED <<sessions, session, connected, socket, link>>
  /\ StartFrame

\* performAttachSequence: initializedPromise was resolved while it is awaited
performAttachSequence_initialized ==
  /\ hs.pc = "await_initialized" /\ hs.promise = "resolved"
  /\ hs' = Validate(hs)
  /\ last' = [NoStep EXCEPT !.op = "performAttachSequence", !.res = "initialized"]
  /\ UNCHANGED <<sessions, session, connected, socket, link>>
  /\ StartFrame

\* performAttachSequence: the 15 s timer rejects initializedPromise; the catch
\* block sleeps 2 s before the next attempt, and after the last attempt the
\* function returns false and the handler throws
performAttachSequence_timeout ==
  /\ hs.pc = "await_initialized" /\ hs.promise = "pending"
  /\ IF hs.attempt < AttachAttempts
     THEN /\ hs' = [hs EXCEPT !.pc = "backoff", !.promise = "rejected",
                              !.cause = InitializedTimeout]
          /\ UNCHANGED <<sessions, session, connected, socket, link>>
     ELSE Fail([hs EXCEPT !.promise = "rejected"], InitializedTimeout, AttachSequenceFailed)
  /\ last' = [NoStep EXCEPT !.op = "performAttachSequence", !.res = "timeout"]
  /\ StartFrame

\* performAttachSequence: the next attempt
performAttachSequence_retry ==
  /\ hs.pc = "backoff" /\ hs.step = "attach"
  /\ hs' = AttachAttempt(hs, hs.attempt + 1)
  /\ last' = [NoStep EXCEPT !.op = "retry", !.file = "attach"]
  /\ UNCHANGED <<sessions, session, connected, socket, link>>
  /\ StartFrame

\* validateDAPConnection: the threads probe is settled; on success the handler
\* goes on to retryDAPOperation(configurationDone)
validateDAPConnection ==
  /\ hs.pc = "validate" /\ hs.reply # "none"
  /\ IF hs.reply = "ok"
     THEN /\ hs' = Request([hs EXCEPT !.probed = TRUE, !.step = "configurationDone",
                                      !.attempt = 1],
                           "configurationDone", "configurationDone", CanSend)
          /\ UNCHANGED <<sessions, session, connected, socket, link>>
     ELSE Fail(hs, hs.reply, hs.reply)
  /\ last' = [NoStep EXCEPT !.op = "validateDAPConnection", !.res = hs.reply]
  /\ StartFrame

\* initializeThreadContext: threads is settled; with a thread it goes on to
\* stackTrace, otherwise (also on an error, which is only logged) it returns
initializeThreadContext_threads ==
  /\ hs.pc = "threads" /\ hs.reply # "none"
  /\ \E threads \in HandshakeThreads :
       /\ hs.reply # "ok" => threads = <<>>
       /\ IF threads # <<>>
          THEN /\ session' = [session EXCEPT !.currentThreadId = threads[1]]
               /\ hs' = Request(hs, "stackTrace", "stackTrace", CanSend)
               /\ UNCHANGED <<sessions, connected, socket, link>>
          ELSE Succeed(hs, session)
  /\ last' = [NoStep EXCEPT !.op = "initializeThreadContext", !.file = "threads",
                            !.res = hs.reply]
  /\ StartFrame

\* initializeThreadContext: stackTrace is settled
initializeThreadContext_stackTrace ==
  /\ hs.pc = "stackTrace" /\ hs.reply # "none"
  /\ \E frames \in HandshakeFrames :
       /\ hs.reply # "ok" => frames = <<>>
       /\ Succeed(hs, IF frames = <<>> THEN session
                      ELSE [session EXCEPT !.currentFrameId = frames[1]])
  /\ last' = [NoStep EXCEPT !.op = "initializeThreadContext", !.file = "stackTrace",
                            !.res = hs.reply]
  /\ StartFrame

\* the steps of the two handlers and of their timers
StartStep ==
  \/ \E ok \in BOOLEAN : startPythonProcess(ok)
  \/ \E ok \in BOOLEAN : waitForConnection(ok)
  \/ \E ok \in BOOLEAN : connect(ok)
  \/ \E r \in {"ok", RequestFailed, RequestTimeout} : HandshakeReply(r)
  \/ \E step \in {"initialize", "configurationDone"} : retryDAPOperation(step)
  \/ \E step \in {"initialize", "configurationDone"} : retryDAPOperation_retry(step)
  \/ performAttachSequence_attached
  \/ performAttachSequence_initialized
  \/ performAttachSequence_timeout
  \/ performAttachSequence_retry
  \/ validateDAPConnection
  \/ initializeThreadContext_threads
  \/ initializeThreadContext_stackTrace

StartNext ==
  \/ start_debug_session
  \/ attach_to_debugpy
  \/ StartStep
  \/ on_initialized
  \/ on_continued
  \/ SocketClosed

SpecStart == StartInit /\ [][StartNext]_vars

\* timers fire and settled promises resume their handlers
SpecStartFair == SpecStart /\ WF_vars(StartStep)

\* the 'stopped' handler that setupDAPEventHandlers has registered before the
\* handshake: the adapter may report a stop of thread 1 at any time, and the
\* next stop once the handler of the last one is through
on_stopped_during_handshake == tasks = <<>> /\ on_stopped(1)

\* the two handlers with the 'stopped' handler
StartEventsNext ==
  \/ StartNext
  \/ on_stopped_during_handshake
  \/ Respond
  \/ \E t \in TaskIds : stackTrace_done(t)
  \/ \E t \in TaskIds : stackTrace_retry(t)

SpecStartEvents == StartInit /\ [][StartEventsNext]_vars

(***************************************************************************)
(* Properties of SpecStart.                                                *)
(***************************************************************************)
\* C22: when start_debug_session has failed, the session is out of the
\* registry, its connection is not open any more, and a subprocess spawned for
\* it has been sent SIGTERM.
C22_FailedStartTornDown ==
  (hs.variant = "start" /\ hs.result = "error")
    => (S1 \notin sessions /\ link # "open" /\ hs.process # "spawned")

\* the part of C22 that holds: a start that fails after the connection was made
\* is torn down
C22_FailedHandshakeTornDown ==
  (hs.variant = "start" /\ hs.result = "error" /\ hs.owned)
    => (S1 \notin sessions /\ link # "open" /\ hs.process = "signalled")

\* configurationDone has been sent only after an initialized event and a
\* successful threads probe
ConfigurationDoneInOrder ==
  hs.sent["configurationDone"] > 0 => (hs.events > 0 /\ hs.probed)

\* C28: in both variants configurationDone is sent only after an initialized
\* event was received and the threads probe succeeded, and the session is
\* running only when configurationDone has succeeded.
C28_RunningOnlyAfterConfigurationDone ==
  /\ ConfigurationDoneInOrder
  /\ (hs.variant # "none" /\ session.state = "running") => hs.configured

\* C28 as amended: the same order of configurationDone, and every step other
\* than the 'continued' handler that makes the session running finds
\* configurationDone succeeded.
C28_HandshakeSetsRunningLast ==
  [][/\ ConfigurationDoneInOrder'
     /\ (session'.state = "running" /\ session.state # "running" /\ last'.res # "continued")
          => hs'.configured]_vars

\* an attach handshake has ended with the session running after
\* configurationDone was sent twice
C28_Witness ==
  /\ hs.variant = "attach" /\ hs.result = "ok" /\ session.state = "running"
  /\ hs.sent["configurationDone"] = 2 /\ hs.events = 1 /\ hs.probed

\* the initialized event has been received within the current attach attempt
Rendezvous == hs.pc \in {"attach", "await_initialized"} /\ hs.promise = "resolved"

\* C29: an attach attempt is not failed by what becomes of the attach request,
\* and once the initialized event has been received within the attempt, the
\* attempt can only succeed, and it does.
C29_InitializedDecidesAttempt ==
  /\ [][/\ hs.pc = "attach" => hs'.pc \in {"attach", "await_initialized", "validate"}
        /\ Rendezvous => hs'.pc \in {"attach", "await_initialized", "validate"}]_vars
  /\ (Rendezvous ~> hs.pc = "validate")

\* the first attempt has succeeded although the attach request was never
\* answered: the event had been received before the request timed out
C29_Witness ==
  /\ hs.pc = "validate" /\ hs.attempt = 1 /\ hs.events = 1
  /\ last.op = "performAttachSequence" /\ last.file = "attach" /\ last.res = RequestTimeout

\* at most 3 initialize, 3 attach and 2 configurationDone requests
BoundedRetries ==
  /\ hs.sent["initialize"] <= InitializeRetries
  /\ hs.sent["attach"] <= AttachAttempts
  /\ hs.sent["configurationDone"] <= ConfigurationDoneRetries

\* C30: the retries of a handshake are bounded, and a handshake (the steps
\* from initialize on) that has ended has left the session running or has
\* failed with the cause of the last failure.
C30_BoundedRetriesLastCause ==
  /\ BoundedRetries
  /\ (hs.pc = "done" /\ hs.sent["initialize"] > 0) =>
       \/ hs.result = "ok" /\ session.state = "running"
       \/ hs.result = "error" /\ hs.thrown = hs.cause

\* the parts of C30 that hold: the bounds, and every handshake ends
C30_BoundedAndTerminates ==
  /\ []BoundedRetries
  /\ (hs.pc # "idle" ~> hs.pc = "done")

\* C35: a handler that returns successfully while the session is paused (a
\* stopped event with a thread id was handled during the handshake and no
\* continued event after it) leaves the session paused.
C35_ReturnKeepsPaused ==
  [][(hs.result # "ok" /\ hs'.result = "ok" /\ session.state = "paused")
       => session'.state = "paused"]_vars

\* C36: when the one initialized event of the adapter was dispatched inside
\* the attach sequence (during an attempt or between two attempts) and the
\* adapter has not closed the connection, the attach sequence does not fail.
C36_InitializedOnceSuffices ==
  (hs.events = 1 /\ hs.heard \in {"attach", "await_initialized", "backoff"}
   /\ link # "closed")
    => ~(hs.pc = "done" /\ hs.thrown = AttachSequenceFailed)

(***************************************************************************)
(* SpecVars: the loop of get_variables over the scopes of the current      *)
(* frame.  A scope name is the sequence of its characters.                  *)
(***************************************************************************)
\* scopes in the adapter's answer to `scopes`
MaxScopes == 3

Upper == <<"C", "G", "L", "N", "O", "B", "A", "S">>
Lower == <<"c", "g", "l", "n", "o", "b", "a", "s">>

\* String.prototype.toLowerCase, one character
LowerChar(c) ==
  IF \E k \in 1..Len(Upper) : Upper[k] = c
  THEN Lower[CHOOSE k \in 1..Len(Upper) : Upper[k] = c]
  ELSE c

\* (mutant) the name is compared as it is written
toLowerCaseNot(name) == name

\* String.prototype.toLowerCase
toLowerCase(name) == [k \in 1..Len(name) |-> LowerChar(name[k])]

\* String.prototype.includes
includes(text, word) ==
  \E k \in 0..(Len(text) - Len(word)) : SubSeq(text, k + 1, k + Len(word)) = word

Local == <<"l", "o", "c", "a", "l">>
Global == <<"g", "l", "o", "b", "a", "l">>

\* the values of the scope argument
ScopeArgs == {"local", "global", "all"}

\* names the adapter may give a scope
ScopeNames ==
  {<<"L", "o", "c", "a", "l", "s">>,
   <<"G", "L", "O", "B", "A", "L", "S">>,
   <<"N", "o", "n", "l", "o", "c", "a", "l", "s">>,
   <<"C", "l", "o", "s", "u", "r", "e">>}

\* variablesReference values of the scopes
ScopeRefs == {1, 2}

ScopeObjects == {[name |-> n, variablesReference |-> r] : n \in ScopeNames, r \in ScopeRefs}

\* what the adapter answers to variables(ref)
VariablesOf(ref) ==
  IF ref = 1 THEN <<[name |-> "x", value |-> "1"]>>
  ELSE <<[name |-> "x", value |-> "2"], [name |-> "y", value |-> "3"]>>

\* the condition of the loop body: the scope is inspected
Selects(scope, scopeObj) ==
  \/ scope = "all"
  \/ scope = "local" /\ includes(toLowerCase(scopeObj.name), Local)
  \/ scope = "global" /\ includes(toLowerCase(scopeObj.name), Global)

\* scopeVariables.map(v => ({ ...v, scope: scopeObj.name }))
Tagged(scopeVariables, scopeObj) ==
  [k \in 1..Len(scopeVariables) |->
     [name |-> scopeVariables[k].name, value |-> scopeVariables[k].value,
      scope |-> scopeObj.name]]

\* get_variables(scope) has received the scopes of the frame
VarsInit ==
  /\ \E scope \in ScopeArgs, n \in 0..MaxScopes : \E scopes \in [1..n -> ScopeObjects] :
       gv = [pc |-> "loop", scope |-> scope, scopes |-> scopes, i |-> 1, variables |-> <<>>]
  /\ sessions = {} /\ session = NoSession
  /\ lastSent = [f \in Sources |-> <<>>]
  /\ tasks = <<>> /\ inputs = 0 /\ log = <<>>
  /\ PortIdle /\ hs = NoHandshake /\ ext = NoOutside /\ cx = NoConnect
  /\ last = NoStep
  /\ ClientIdle /\ CorrIdle /\ FrameIdle

\* one round of `for (const scopeObj of scopes)`: a scope that is not selected
\* is passed over; for a selected one `await variables(ref)` resolves (ok) and
\* the tagged variables are pushed, or it rejects and the handler throws
get_variables_loop(ok) ==
  /\ gv.pc = "loop" /\ gv.i <= Len(gv.scopes)
  /\ LET scopeObj == gv.scopes[gv.i] IN
     IF ~Selects(gv.scope, scopeObj)
     THEN /\ ok
          /\ gv' = [gv EXCEPT !.i = @ + 1]
     ELSE IF ok
     THEN gv' = [gv EXCEPT !.i = @ + 1,
                           !.variables = @ \o Tagged(VariablesOf(scopeObj.variablesReference),
                                                     scopeObj)]
     ELSE gv' = [gv EXCEPT !.pc = "thrown"]
  /\ last' = [NoStep EXCEPT !.op = "get_variables", !.line = gv.i,
                            !.res = IF ok THEN "ok" ELSE "failed"]
  /\ UNCHANGED <<sessions, session, lastSent, tasks, inputs, log, portVars, hs,
                 ext, cx, clientVars, corrVars, frameVars>>

\* the loop is over: the handler returns the list
get_variables_return ==
  /\ gv.pc = "loop" /\ gv.i > Len(gv.scopes)
  /\ gv' = [gv EXCEPT !.pc = "returned"]
  /\ last' = [NoStep EXCEPT !.op = "get_variables", !.res = "returned"]
  /\ UNCHANGED <<sessions, session, lastSent, tasks, inputs, log, portVars, hs,
                 ext, cx, clientVars, corrVars, frameVars>>

VarsNext ==
  \/ \E ok \in BOOLEAN : get_variables_loop(ok)
  \/ get_variables_return

SpecVars == VarsInit /\ [][VarsNext]_vars

\* two letters are the same when case is ignored
SameLetter(a, b) == LowerChar(a) = LowerChar(b)

\* the word occurs in the name when case is ignored
ContainsIgnoringCase(name, word) ==
  \E k \in 0..(Len(name) - Len(word)) :
    \A j \in 1..Len(word) : SameLetter(name[k + j], word[j])

\* the scopes that the scope argument selects according to the claim
Wanted(scope, scopeObj) ==
  CASE scope = "all" -> TRUE
    [] scope = "local" -> ContainsIgnoringCase(scopeObj.name, Local)
    [] scope = "global" -> ContainsIgnoringCase(scopeObj.name, Global)

\* the variables of the wanted scopes among the first n, in scope order, each
\* with the name of its scope
RECURSIVE WantedVariables(_, _, _)
WantedVariables(scope, scopes, n) ==
  IF n = 0 THEN <<>>
  ELSE WantedVariables(scope, scopes, n - 1) \o
       (IF Wanted(scope, scopes[n])
        THEN [k \in 1..Len(VariablesOf(scopes[n].variablesReference)) |->
                [name |-> VariablesOf(scopes[n].variablesReference)[k].name,
                 value |-> VariablesOf(scopes[n].variablesReference)[k].value,
                 scope |-> scopes[n].name]]
        ELSE <<>>)

\* C25: what get_variables(scope) returns is the variables of the scopes the
\* scope argument selects, concatenated in scope order and tagged with the
\* name of their scope.
C25_VariablesOfSelectedScopes ==
  gv.pc = "returned" => gv.variables = WantedVariables(gv.scope, gv.scopes, Len(gv.scopes))

\* get_variables(global) has returned for a frame whose scopes are, in this
\* order, one that is not selected and two that are, one of them in capitals
C25_Witness ==
  /\ gv.pc = "returned" /\ gv.scope = "global" /\ Len(gv.scopes) = 3
  /\ ~Wanted(gv.scope, gv.scopes[1])
  /\ Wanted(gv.scope, gv.scopes[2]) /\ Wanted(gv.scope, gv.scopes[3])
  /\ Len(gv.variables) = 3

(***************************************************************************)
(* SpecStop: a session that start_debug_session has started, with what     *)
(* lives outside the session object: the entry the event broadcaster keeps *)
(* for it, the session_state_changed messages the broadcaster publishes,   *)
(* and the subprocess with its 'exit' callback and the kill timer of       *)
(* terminateSession.  Spec leaves the broadcaster out of its handlers; the *)
(* handlers of this specification are taken with their broadcaster calls.  *)
(* ext.entry is the state field of the entry as updateSessionState wrote   *)
(* it last ("none": no entry); ext.published counts the messages with data,*)
(* ext.removed says that the removal (data null) has been published.       *)
(***************************************************************************)
\* EventBroadcaster.updateSessionState(sessionId, {state, ...}): the entry is
\* merged from the current one or from nothing, stored, and published
eventBroadcaster_updateSessionState(e, state) ==
  [e EXCEPT !.entry = state, !.published = @ + 1]

\* EventBroadcaster.removeSessionState(sessionId): delete, publish data null
removeSessionState(e) == [e EXCEPT !.entry = "none", !.removed = TRUE]

\* ChildProcess.kill(signal): a process that has not exited gets the signal and
\* `killed` becomes true, whether the signal ends the process or not
kill(e, signal) ==
  IF e.process = "running"
  THEN [e EXCEPT !.signals = Append(@, signal), !.killed = TRUE]
  ELSE e

\* `session.pythonProcess && !session.pythonProcess.killed`
NotKilled(e) == e.process # "none" /\ ~e.killed

\* start_debug_session has returned: the session is running, its client is
\* connected, its subprocess runs and the broadcaster has its entry
StopInit ==
  \E threads \in HandshakeThreads, frames \in HandshakeFrames :
    /\ threads = <<>> <=> frames = <<>>
    /\ sessions = {S1}
    /\ session = [created |-> TRUE, state |-> "running",
                  currentThreadId |-> IF threads = <<>> THEN Undefined ELSE threads[1],
                  currentFrameId |-> IF frames = <<>> THEN Undefined ELSE frames[1],
                  dapClient |-> TRUE, breakpoints |-> NoBreakpoints]
    /\ connected = TRUE /\ socket = TRUE /\ link = "open"
    /\ sequenceNumber = 1 + HandshakeRequests(threads)
    /\ pendingRequests = <<>> /\ inbox = {}
    /\ lastSent = [f \in Sources |-> <<>>]
    /\ tasks = <<>> /\ inputs = 0 /\ log = <<>>
    /\ hs = NoHandshake /\ gv = NoInspection /\ cx = NoConnect
    /\ ext = [NoOutside EXCEPT !.entry = "running", !.process = "running"]
    /\ portCounter = getNextPort(FirstPortCounter)
    /\ created = <<[kind |-> "start", allocated |-> getNextPort(FirstPortCounter),
                    port |-> getNextPort(FirstPortCounter)]>>
    /\ last = NoStep
    /\ CorrIdle /\ FrameIdle

\* stop_debug_session(session_id) with SessionManager.terminateSession: close
\* the client, SIGTERM and the 2 s timer unless `killed`, state 'stopped',
\* removeSessionState, sessions.delete
stop_started_session ==
  /\ session.created /\ NoReady
  /\ inputs < MaxInputs
  /\ inputs' = inputs + 1
  /\ IF S1 \notin sessions
     THEN /\ last' = [NoStep EXCEPT !.op = "stop_debug_session", !.res = "invalid params"]
          /\ UNCHANGED <<sessions, session, connected, socket, link, ext>>
     ELSE /\ session' = terminateSession(session)
          /\ sessions' = sessions \ {S1}
          /\ IF session.dapClient
             THEN /\ link' = LinkAfterClose(link, socket)
                  /\ socket' = FALSE
                  /\ connected' = FALSE
             ELSE UNCHANGED <<connected, socket, link>>
          /\ ext' = removeSessionState(
                      IF NotKilled(ext)
                      THEN [kill(ext, "SIGTERM") EXCEPT !.timer = "armed"]
                      ELSE ext)
          /\ last' = [NoStep EXCEPT !.op = "stop_debug_session", !.res = "ok"]
  /\ UNCHANGED <<sequenceNumber, pendingRequests, inbox, lastSent, tasks, log, portVars,
                 corrVars, frameVars, hs, gv, cx>>

\* the timer of terminateSession fires 2 s after the SIGTERM
force_kill_timer ==
  /\ ext.timer = "armed" /\ NoReady
  /\ ext' = [(IF NotKilled(ext) THEN kill(ext, "SIGKILL") ELSE ext) EXCEPT !.timer = "fired"]
  /\ last' = [NoStep EXCEPT !.op = "kill timer",
                            !.res = IF NotKilled(ext) THEN "SIGKILL" ELSE "nothing"]
  /\ UNCHANGED <<sessions, session, lastSent, tasks, inputs, log, portVars, hs, gv, cx,
                 clientVars, corrVars, frameVars>>

\* the subprocess exits, of itself or by a signal: the 'exit' callback of
\* setupEnhancedOutputCapture
process_exit ==
  /\ ext.process = "running" /\ NoReady
  /\ ext' = eventBroadcaster_updateSessionState([ext EXCEPT !.process = "exited"], "stopped")
  /\ last' = [NoStep EXCEPT !.op = "process exit"]
  /\ UNCHANGED <<sessions, session, lastSent, tasks, inputs, log, portVars, hs, gv, cx,
                 clientVars, corrVars, frameVars>>

\* the 'stopped' handler after the stackTrace response: with frames it sets
\* currentFrameId and publishes state 'paused' with the location
stopped_handler_located(t) ==
  /\ Ready(t) /\ tasks[t].op = "stopped" /\ tasks[t].pc = "stackTrace"
  /\ LET res == ListOf(tasks[t].res)
         frames == IF res.body.kind = "list" THEN res.body.ids ELSE <<>>
     IN IF res.ok
        THEN /\ session' = IF frames # <<>>
                           THEN [session EXCEPT !.currentFrameId = frames[1]]
                           ELSE session
             /\ ext' = IF frames # <<>>
                       THEN eventBroadcaster_updateSessionState(ext, "paused")
                       ELSE ext
             /\ tasks' = WithoutTask(tasks, t)
             /\ last' = [NoStep EXCEPT !.op = "stopped handler",
                                       !.res = IF frames # <<>> THEN "frame" ELSE "no frame"]
        ELSE IF tasks[t].attempt = StackTraceRetries
        THEN /\ tasks' = WithoutTask(tasks, t)
             /\ last' = [NoStep EXCEPT !.op = "stopped handler", !.res = "gave up"]
             /\ UNCHANGED <<session, ext>>
        ELSE /\ tasks' = [tasks EXCEPT ![t].pc = "backoff", ![t].res = NoResult]
             /\ last' = [NoStep EXCEPT !.op = "stopped handler", !.res = "backoff"]
             /\ UNCHANGED <<session, ext>>
  /\ NoSend
  /\ UNCHANGED <<sessions, inputs, log, portVars, corrVars, frameVars, hs, gv, cx>>

\* the 'continued' handler: state 'running' goes to the session, if it is
\* registered, and to the broadcaster
continued_handler ==
  /\ CanReceiveEvent
  /\ inputs' = inputs + 1
  /\ session' = updateSessionState(sessions, session, "running")
  /\ ext' = eventBroadcaster_updateSessionState(ext, "running")
  /\ last' = [NoStep EXCEPT !.op = "event", !.res = "continued"]
  /\ NoSend
  /\ UNCHANGED <<sessions, tasks, log, portVars, corrVars, frameVars, hs, gv, cx>>

\* the 'terminated' handler: state 'stopped' goes to the session, if it is
\* registered, and to the broadcaster
terminated_handler ==
  /\ CanReceiveEvent
  /\ inputs' = inputs + 1
  /\ session' = updateSessionState(sessions, session, "stopped")
  /\ ext' = eventBroadcaster_updateSessionState(ext, "stopped")
  /\ last' = [NoStep EXCEPT !.op = "event", !.res = "terminated"]
  /\ NoSend
  /\ UNCHANGED <<sessions, tasks, log, portVars, corrVars, frameVars, hs, gv, cx>>

\* the 'exited' handler: state 'stopped' goes to the session, if it is
\* registered, and to the broadcaster
exited_handler ==
  /\ CanReceiveEvent
  /\ inputs' = inputs + 1
  /\ session' = updateSessionState(sessions, session, "stopped")
  /\ ext' = eventBroadcaster_updateSessionState(ext, "stopped")
  /\ last' = [NoStep EXCEPT !.op = "event", !.res = "exited"]
  /\ NoSend
  /\ UNCHANGED <<sessions, tasks, log, portVars, corrVars, frameVars, hs, gv, cx>>

StopNext ==
  \/ stop_started_session
  \/ force_kill_timer
  \/ process_exit
  \/ Respond
  \/ Timeout
  \/ SocketClosed
  \/ \E tid \in ThreadIds \cup {Undefined} : on_stopped(tid)
  \/ \E t \in TaskIds : stopped_handler_located(t)
  \/ \E t \in TaskIds : stackTrace_retry(t)
  \/ continued_handler
  \/ terminated_handler
  \/ exited_handler

SpecStop == StopInit /\ [][StopNext]_vars

(***************************************************************************)
(* Properties of SpecStop.                                                 *)
(***************************************************************************)
\* C31: terminating a session that owns its subprocess closes the socket, sends
\* SIGTERM, leaves the session stopped and out of the registry, and when the
\* grace period is over and the subprocess has still not exited, SIGKILL is
\* sent to it.
C31_TerminateKillsSubprocess ==
  [][/\ (last'.op = "stop_debug_session" /\ last'.res = "ok" /\ ext.process = "running") =>
          /\ ~socket' /\ ~connected' /\ link' # "open"
          /\ ext'.signals = <<"SIGTERM">>
          /\ session'.state = "stopped" /\ sessions' = {}
     /\ (ext.timer = "armed" /\ ext'.timer = "fired" /\ ext.process = "running") =>
          ext'.signals = <<"SIGTERM", "SIGKILL">>]_vars

\* C32: the writes of a stopped handler (the frame, the published pause) are
\* made before any later continued, terminated or exited event of the session
\* is applied: when they are made, the registered session is still in the
\* pause that the handler's event began.
C32_StoppedEffectsBeforeLaterEvents ==
  [][(last'.op = "stopped handler" /\ last'.res = "frame" /\ S1 \in sessions) =>
       session.state = "paused"]_vars

\* C38: once the removal of a terminated session is published, the broadcaster
\* holds no entry for the session and publishes no session_state_changed with
\* data for it.
C38_NothingAfterRemoval ==
  [][ext.removed => (ext'.entry = "none" /\ ext'.published = ext.published)]_vars

(***************************************************************************)
(* SpecConnect: ProcessManager.waitForConnection, which calls              *)
(* dapClient.connect(1000) until one call resolves or 10 s are over, and   *)
(* the sockets these calls create.  cx.sockets[i] is the socket of call i: *)
(* "connecting", "open" or "closed"; this.socket is the last one.  Every   *)
(* socket keeps the four listeners that connect() gave it.                 *)
(***************************************************************************)
\* calls of connect() that fit into the 10 s of waitForConnection
MaxConnects == 3

\* the socket of call i has not been closed
Live(i) == cx.sockets[i] # "closed"

\* call i is the one waitForConnection is awaiting
Awaited(i) == cx.pc = "connecting" /\ i = cx.attempt

\* what the connect loop leaves alone
ConnectFrame ==
  UNCHANGED <<sessions, session, lastSent, tasks, inputs, log, portVars, hs, gv, ext,
              sequenceNumber, pendingRequests, link, inbox, corrVars,
              wire, original, dispatched, errors>>

\* waitForConnection enters its loop, or its 500 ms sleep is over with time
\* left: dapClient.connect(1000) arms the timer and sets this.socket to a new
\* connection
dapClient_connect ==
  /\ cx.pc \in {"idle", "sleeping"} /\ cx.attempt < MaxConnects
  /\ cx' = [cx EXCEPT !.pc = "connecting", !.attempt = @ + 1,
                      !.sockets = Append(@, "connecting")]
  /\ socket' = TRUE
  /\ last' = [NoStep EXCEPT !.op = "connect", !.who = cx.attempt + 1]
  /\ UNCHANGED <<connected, messageBuffer>>
  /\ ConnectFrame

\* the 500 ms sleep is over and so are the 10 s: waitForConnection throws
waitForConnection_throw ==
  /\ cx.pc = "sleeping" /\ cx.attempt = MaxConnects
  /\ cx' = [cx EXCEPT !.pc = "thrown"]
  /\ last' = [NoStep EXCEPT !.op = "waitForConnection", !.res = "failed"]
  /\ UNCHANGED <<connected, socket, messageBuffer>>
  /\ ConnectFrame

\* the timer of the awaited connect() fires: the promise is rejected, the
\* socket is left as it is, and waitForConnection sleeps
connect_timeout ==
  /\ cx.pc = "connecting" /\ cx.sockets[cx.attempt] = "connecting"
  /\ cx' = [cx EXCEPT !.pc = "sleeping"]
  /\ last' = [NoStep EXCEPT !.op = "connect timeout", !.who = cx.attempt]
  /\ UNCHANGED <<connected, socket, messageBuffer>>
  /\ ConnectFrame

\* the 'connect' listener of socket i: connected = true, resolve()
socket_connect(i) ==
  /\ i \in DOMAIN cx.sockets /\ cx.sockets[i] = "connecting"
  /\ connected' = TRUE
  /\ cx' = [cx EXCEPT !.sockets[i] = "open",
                      !.pc = IF Awaited(i) THEN "returned" ELSE @]
  /\ last' = [NoStep EXCEPT !.op = "socket connect", !.who = i]
  /\ UNCHANGED <<socket, messageBuffer>>
  /\ ConnectFrame

\* the 'data' listener of socket i: handleData appends the chunk
socket_data(i) ==
  /\ i \in DOMAIN cx.sockets /\ cx.sockets[i] = "open"
  /\ Len(messageBuffer) < MaxConnects
  /\ messageBuffer' = Append(messageBuffer, i)
  /\ last' = [NoStep EXCEPT !.op = "socket data", !.who = i]
  /\ UNCHANGED <<connected, socket, cx>>
  /\ ConnectFrame

\* the connection of socket i is refused or reset: the 'error' listener
\* rejects, the 'close' listener sets connected = false and emits 'disconnected'
socket_error(i) ==
  /\ i \in DOMAIN cx.sockets /\ cx.sockets[i] = "connecting"
  /\ connected' = FALSE
  /\ cx' = [cx EXCEPT !.sockets[i] = "closed",
                      !.pc = IF Awaited(i) THEN "sleeping" ELSE @]
  /\ last' = [NoStep EXCEPT !.op = "socket error", !.who = i, !.res = "disconnected"]
  /\ UNCHANGED <<socket, messageBuffer>>
  /\ ConnectFrame

\* the 'close' listener of socket i: connected = false, emit('disconnected')
socket_close(i) ==
  /\ i \in DOMAIN cx.sockets /\ cx.sockets[i] = "open"
  /\ connected' = FALSE
  /\ cx' = [cx EXCEPT !.sockets[i] = "closed"]
  /\ last' = [NoStep EXCEPT !.op = "socket close", !.who = i, !.res = "disconnected"]
  /\ UNCHANGED <<socket, messageBuffer>>
  /\ ConnectFrame

ConnectNext ==
  \/ dapClient_connect
  \/ waitForConnection_throw
  \/ connect_timeout
  \/ \E i \in 1..MaxConnects : socket_connect(i)
  \/ \E i \in 1..MaxConnects : socket_data(i)
  \/ \E i \in 1..MaxConnects : socket_error(i)
  \/ \E i \in 1..MaxConnects : socket_close(i)

SpecConnect == Init /\ [][ConnectNext]_vars

(***************************************************************************)
(* Properties of SpecConnect.                                              *)
(***************************************************************************)
\* C37: in the connect loop a client has at most one live socket: once a later
\* call of connect() has started, the socket of an earlier call is dead, so it
\* cannot set connected, feed the message buffer or emit 'disconnected'.
C37_OneLiveSocket ==
  \A i \in DOMAIN cx.sockets : i < cx.attempt => ~Live(i)

====
